---- MODULE Spec2Model ----
(***************************************************************************)
(* A model of the expression simplification engine of QNET:                *)
(*   - the simplification passes of qnet/algebra/core/algebraic_properties *)
(*     (assoc, idem, scalars_to_op, orderby, filter_neutral,               *)
(*     match_replace, match_replace_binary and the divide-and-conquer      *)
(*     binary reducer),                                                    *)
(*   - the classes that declare pipelines of these passes                  *)
(*     (OperatorPlus, OperatorTimes of operator_algebra.py and the         *)
(*     docstring classes FilterDupes, Invert, Set and X),                  *)
(*   - the create() loop that runs a class's passes in order.              *)
(* Expression nodes are records tagged with their class name in field t.   *)
(***************************************************************************)
EXTENDS Integers, Sequences, FiniteSets, TLC

VARIABLES cls, rules, brules, args, kwargs, pc, result, ran, built, prev, orig,
          self, other, calls, value, frame, scopes

\* the state of a create() call, of a method call on an expression, and of
\* the scoped rule overrides
createVars == <<cls, rules, brules, args, kwargs, pc, result, ran, built, prev, orig>>
methodVars == <<self, other, calls, value, frame>>
vars == <<createVars, methodVars, scopes>>

(***************************************************************************)
(* Bounds of the model                                                     *)
(***************************************************************************)
\* longest operand list given to FilterDupes.create / Invert.create
MaxOps == 4
\* longest operand list given to OperatorPlus.create / OperatorTimes.create
MaxAlgOps == 3
\* longest rule table of a class using match_replace
MaxRules == 2
\* number of factors of the products of operators on overlapping spaces
MaxFactors == 4
\* highest order n of a derivative x.diff(sym, n)
MaxDerivative == 3
\* highest order of a series expansion
MaxOrder == 2
\* deepest nesting of with-blocks that override rules
MaxScopes == 3
\* most entries and exits of with-blocks in a behaviour
MaxEvents == 6

(***************************************************************************)
(* Values                                                                  *)
(***************************************************************************)
None == [t |-> "None"]
IntVal(n) == [t |-> "int", v |-> n]
Str(s) == [t |-> "str", s |-> s]
\* a float, kept as the fraction num/den
Float(n, d) == [t |-> "float", num |-> n, den |-> d]
\* an instance of the operation class c
Node(c, ops, kw) == [t |-> c, args |-> ops, kwargs |-> kw]

NoKwargs == << >>
ZeroOperator == [t |-> "ZeroOperator"]
\* the states: kets, and the Bra of a ket
KetSymbol(label, hs) == [t |-> "KetSymbol", label |-> label, hs |-> hs]
ZeroKet == [t |-> "ZeroKet"]
TrivialKet == [t |-> "TrivialKet"]
Bra(ket) == [t |-> "Bra", operand |-> ket]
IdentityOperator == [t |-> "IdentityOperator"]
\* a symbol with its Hilbert space (see LocalSpace, ProductSpace below)
OperatorSymbol(label, hs) == [t |-> "OperatorSymbol", label |-> label, hs |-> hs]
Adjoint(op) == [t |-> "Adjoint", operand |-> op]
ScalarTimesOperatorNode(c, term) == [t |-> "ScalarTimesOperator", coeff |-> c, term |-> term]
OperatorPlusMinusCC(op, sign) == [t |-> "OperatorPlusMinusCC", operand |-> op, sign |-> sign]

\* the scalars of the calculus: the monomial c * t**p in the real scalar
\* symbol t; Zero and One are the scalar singletons
Scalar(c, p) == [t |-> "Scalar", c |-> c, p |-> p]
Zero == Scalar(0, 0)
One == Scalar(1, 0)
\* a ScalarTimesOperator whose coefficient is c * t**p with p > 0
SymbolicTimesOperatorNode(c, p, term) ==
    [t |-> "ScalarTimesOperator", coeff |-> c, power |-> p, term |-> term]
\* the power of t in the coefficient of a ScalarTimesOperator
Power(x) == IF "power" \in DOMAIN x THEN x.power ELSE 0
\* x.coeff as a scalar
Coeff(x) == Scalar(x.coeff, Power(x))

\* what a method raises
NotImplementedError == [t |-> "NotImplementedError"]
AttributeError == [t |-> "AttributeError"]
TypeError == [t |-> "TypeError"]
AssertionError == [t |-> "AssertionError"]
UnequalSpaces == [t |-> "UnequalSpaces"]
RecursionError == [t |-> "RecursionError"]
UnboundLocalError == [t |-> "UnboundLocalError"]
Exceptions == {"TypeError", "NotImplementedError", "AttributeError", "AssertionError",
               "UnequalSpaces", "RecursionError", "UnboundLocalError"}
\* v is an exception a call raised, which the calls around it hand on
Raised(v) == v.t \in Exceptions

\* the scalars of the model are integers
SCALAR_TYPES == {"int"}
IsInstance(o, c) == o.t = c
IsKet(o) == o.t \in {"KetSymbol", "ZeroKet", "TrivialKet", "ScalarTimesKet", "KetPlus",
                     "TensorKet"}
IsBra(o) == o.t = "Bra"
IsOperator(o) == o.t \in {"ZeroOperator", "IdentityOperator", "OperatorSymbol", "Adjoint",
                          "ScalarTimesOperator", "OperatorPlusMinusCC", "OperatorPlus",
                          "OperatorTimes", "OperatorIndexedSum", "Commutator"}

\* sum(expanded, ()) : concatenation of a sequence of sequences
RECURSIVE Flatten(_)
Flatten(ss) == IF ss = << >> THEN << >> ELSE Head(ss) \o Flatten(Tail(ss))

RECURSIVE Reverse(_)
Reverse(s) == IF s = << >> THEN << >> ELSE Reverse(Tail(s)) \o <<Head(s)>>

\* all sequences over S of length at most n
SeqsUpTo(S, n) == UNION {[1..k -> S] : k \in 0..n}

(***************************************************************************)
(* Hilbert spaces: a space is the set of the labels of its local factors;  *)
(* TrivialSpace is the empty product.                                      *)
(***************************************************************************)
TrivialSpace == {}
\* the space of every state: its label comes before every other label
FullSpace == {0}
LocalSpace(h) == {h}
\* ProductSpace.create(*[LocalSpace(h) for h in hs])
ProductSpace(hs) == UNION {LocalSpace(hs[i]) : i \in 1..Len(hs)}

RECURSIVE space(_)
space(x) ==
    CASE x.t \in {"OperatorSymbol", "KetSymbol"} -> x.hs
      [] x.t \in {"ZeroOperator", "IdentityOperator", "TrivialKet"} -> TrivialSpace
      [] x.t = "ZeroKet" -> FullSpace
      [] x.t \in {"Adjoint", "OperatorPlusMinusCC", "Bra"} -> space(x.operand)
      [] x.t \in {"ScalarTimesOperator", "ScalarTimesKet"} -> space(x.term)
      [] x.t \in {"KetPlus", "TensorKet"} -> x.stored_space
      [] x.t = "OperatorIndexedSum" -> space(x.term)
      [] x.t \in {"OperatorPlus", "OperatorTimes", "Commutator"} ->
            UNION {space(x.args[i]) : i \in 1..Len(x.args)}

isdisjoint(s1, s2) == s1 \cap s2 = {}

\* the sorted tuple of the labels of a space
RECURSIVE SpaceLabels(_)
SpaceLabels(s) ==
    IF s = {} THEN << >>
    ELSE LET m == CHOOSE h \in s : \A g \in s : h <= g
         IN <<m>> \o SpaceLabels(s \ {m})

(***************************************************************************)
(* Order keys                                                              *)
(***************************************************************************)
\* s1 < s2 for tuples of numbers, as Python compares tuples
RECURSIVE LexLess(_, _)
LexLess(s1, s2) ==
    IF s2 = << >> THEN FALSE
    ELSE IF s1 = << >> THEN TRUE
    ELSE IF Head(s1) < Head(s2) THEN TRUE
    ELSE IF Head(s2) < Head(s1) THEN FALSE
    ELSE LexLess(Tail(s1), Tail(s2))

\* the rank of a class name among the class names, as strings compare
NameRank(name) ==
    CASE name = "Adjoint" -> 1
      [] name = "Bra" -> 2
      [] name = "Commutator" -> 3
      [] name = "IdentityOperator" -> 4
      [] name = "KetPlus" -> 5
      [] name = "KetSymbol" -> 6
      [] name = "OperatorIndexedSum" -> 7
      [] name = "OperatorPlus" -> 8
      [] name = "OperatorPlusMinusCC" -> 9
      [] name = "OperatorSymbol" -> 10
      [] name = "OperatorTimes" -> 11
      [] name = "ScalarTimesKet" -> 12
      [] name = "ScalarTimesOperator" -> 13
      [] name = "TensorKet" -> 14
      [] name = "TrivialKet" -> 15
      [] name = "ZeroKet" -> 16
      [] name = "ZeroOperator" -> 17

\* _order_index of the class of x
OrderIndex(x) ==
    CASE x.t \in {"OperatorSymbol", "KetSymbol"} -> 0
      [] x.t \in {"ZeroOperator", "IdentityOperator", "ZeroKet", "TrivialKet"} -> 2
      [] OTHER -> 1

Abs(n) == IF n < 0 THEN 0 - n ELSE n
\* the rank of ascii(coeff) among the printed coefficients, as strings compare
\* ("-1" < "-2" < "1" < "2": the minus sign sorts before every digit)
AsciiRank(c) == IF c < 0 THEN Abs(c) ELSE 100 + c
\* abs(float(coeff)) of a coefficient with a free symbol: float('inf')
Infinity == 1000
\* the rank of ascii(c * t**p), p > 0, among the printed coefficients
\* ("2*t" < "2*t**2" < "3*t" < "t" < "t**2": digits sort before letters)
SymbolicAsciiRank(c, p) == IF c = 1 THEN Infinity + p ELSE 10 * c + p

\* a KeyTuple is a tuple of numbers (strings by their rank) and KeyTuples
KeyNum(n) == [k |-> "num", v |-> n]
KeyTuple(items) == [k |-> "tuple", items |-> items]

\* a < b for KeyTuples, as tuples compare: by the first items that differ,
\* a proper prefix before the longer tuple (items at the same position of
\* two keys are of the same kind)
RECURSIVE KeyLess(_, _)
KeyLess(a, b) ==
    IF a.k = "num" /\ b.k = "num" THEN a.v < b.v
    ELSE IF a.k = "tuple" /\ b.k = "tuple"
    THEN IF b.items = << >> THEN FALSE
         ELSE IF a.items = << >> THEN TRUE
         ELSE IF Head(a.items) # Head(b.items)
              THEN KeyLess(Head(a.items), Head(b.items))
              ELSE KeyLess(KeyTuple(Tail(a.items)), KeyTuple(Tail(b.items)))
    ELSE FALSE

\* the rank of a keyword among the keywords, as strings compare
KeywordRank(key) == CASE key = "hs" -> 1 [] key = "ranges" -> 2 [] OTHER -> 3

\* x._order_key
RECURSIVE OrderKey(_)
OrderKey(x) ==
    LET key(order_args, order_kwargs) ==
            KeyTuple(<<KeyNum(OrderIndex(x)), KeyNum(NameRank(x.t)), KeyNum(1),
                       KeyTuple(order_args), KeyTuple(order_kwargs)>>)
        labels == SpaceLabels(x.hs)
    IN CASE x.t \in {"OperatorSymbol", "KetSymbol"} ->
               key(<<KeyNum(x.label)>>,
                   <<KeyTuple(<<KeyNum(KeywordRank("hs")),
                                KeyTuple([i \in 1..Len(labels) |-> KeyNum(labels[i])])>>)>>)
         [] x.t \in {"ZeroOperator", "IdentityOperator", "ZeroKet", "TrivialKet"} ->
               key(<< >>, << >>)
         [] x.t \in {"Adjoint", "Bra"} -> key(<<OrderKey(x.operand)>>, << >>)
         [] x.t = "OperatorPlusMinusCC" ->
               key(<<OrderKey(x.operand)>>,
                   <<KeyTuple(<<KeyNum(KeywordRank("sign")), KeyNum(x.sign)>>)>>)
         [] x.t \in {"OperatorPlus", "OperatorTimes", "Commutator", "KetPlus", "TensorKet"} ->
               key([i \in 1..Len(x.args) |-> OrderKey(x.args[i])], << >>)
         [] x.t = "OperatorIndexedSum" ->
               key(<<OrderKey(x.term)>>,
                   <<KeyTuple(<<KeyNum(KeywordRank("ranges")),
                                KeyTuple([i \in 1..Len(x.ranges) |->
                                            KeyNum(x.ranges[i].index_symbol.primed)])>>)>>)
         [] x.t = "ScalarTimesOperator" ->
               LET t == OrderKey(x.term).items
               IN IF Power(x) > 0
                  THEN KeyTuple(SubSeq(t, 1, 2) \o <<KeyNum(Infinity)>>
                                   \o SubSeq(t, 4, Len(t))
                                   \o <<KeyNum(SymbolicAsciiRank(x.coeff, x.power))>>)
                  ELSE KeyTuple(SubSeq(t, 1, 2) \o <<KeyNum(Abs(x.coeff))>>
                                   \o SubSeq(t, 4, Len(t))
                                   \o <<KeyNum(AsciiRank(x.coeff))>>)

\* FullCommutativeHSOrder(a) < FullCommutativeHSOrder(b)
FullCommutativeHSOrder(a, b) ==
    IF space(a) = space(b) THEN KeyLess(OrderKey(a), OrderKey(b))
    ELSE LexLess(SpaceLabels(space(a)), SpaceLabels(space(b)))

\* DisjunctCommutativeHSOrder(a) < DisjunctCommutativeHSOrder(b)
DisjunctCommutativeHSOrder(a, b) ==
    IF isdisjoint(space(a), space(b))
    THEN IF space(a) = space(b) THEN KeyLess(OrderKey(a), OrderKey(b))
         ELSE LexLess(SpaceLabels(space(a)), SpaceLabels(space(b)))
    ELSE FALSE

\* the docstring classes order plain values by the value itself
ValueOrder(a, b) == a.v < b.v

\* a variant in which a product's operands are all incomparable
order_key_lt_sums_only(c, a, b) ==
    CASE c = "OperatorPlus" -> FullCommutativeHSOrder(a, b)
      [] c = "OperatorTimes" -> FALSE
      [] OTHER -> ValueOrder(a, b)

\* cls.order_key(a) < cls.order_key(b)
order_key_lt(c, a, b) ==
    CASE c \in {"OperatorPlus", "KetPlus", "Commutator"} -> FullCommutativeHSOrder(a, b)
      [] c \in {"OperatorTimes", "TensorKet"} -> DisjunctCommutativeHSOrder(a, b)
      [] OTHER -> ValueOrder(a, b)

(***************************************************************************)
(* sorted(ops, key=cls.order_key): Python's list sort on a list shorter    *)
(* than 64 elements finds the run the list starts with (reversing it when  *)
(* it strictly descends) and inserts the other elements by binary search.  *)
(***************************************************************************)
\* the length of the run ops starts with, given that ops[1..n] is one
RECURSIVE RunLength(_, _, _, _)
RunLength(c, ops, n, descending) ==
    IF n >= Len(ops) THEN n
    ELSE IF descending = order_key_lt(c, ops[n + 1], ops[n])
         THEN RunLength(c, ops, n + 1, descending)
         ELSE n

\* the place binary search finds for pivot in the sorted prefix, within lo..hi
RECURSIVE BinarySearch(_, _, _, _, _)
BinarySearch(c, sorted, pivot, lo, hi) ==
    IF lo >= hi THEN lo
    ELSE LET p == lo + ((hi - lo) \div 2)
         IN IF order_key_lt(c, pivot, sorted[p + 1])
            THEN BinarySearch(c, sorted, pivot, lo, p)
            ELSE BinarySearch(c, sorted, pivot, p + 1, hi)

\* sorted with pivot inserted at the place l
Inserted(sorted, pivot, l) ==
    SubSeq(sorted, 1, l) \o <<pivot>> \o SubSeq(sorted, l + 1, Len(sorted))

RECURSIVE BinaryInsertionSort(_, _, _)
BinaryInsertionSort(c, sorted, rest) ==
    IF rest = << >> THEN sorted
    ELSE BinaryInsertionSort(
             c,
             Inserted(sorted, Head(rest),
                      BinarySearch(c, sorted, Head(rest), 0, Len(sorted))),
             Tail(rest))

\* the sort of ops, whose first n operands are a run (descending or not)
SortedAfterRun(c, ops, n, descending) ==
    BinaryInsertionSort(
        c,
        IF descending THEN Reverse(SubSeq(ops, 1, n)) ELSE SubSeq(ops, 1, n),
        SubSeq(ops, n + 1, Len(ops)))

\* the sort of ops, of two operands or more, whose first run descends or not
SortedFromRun(c, ops, descending) ==
    SortedAfterRun(c, ops, RunLength(c, ops, 2, descending), descending)

Sorted(c, ops) ==
    IF Len(ops) < 2 THEN ops
    ELSE SortedFromRun(c, ops, order_key_lt(c, ops[2], ops[1]))

(***************************************************************************)
(* What a pass returns: the pair (ops, kwargs) for the next pass, or one   *)
(* finished value.                                                         *)
(***************************************************************************)
Pair(ops, kw) == [pair |-> TRUE, ops |-> ops, kwargs |-> kw]
Final(v) == [pair |-> FALSE, val |-> v]

(***************************************************************************)
(* The classes                                                             *)
(***************************************************************************)
Classes == {"OperatorPlus", "OperatorTimes", "FilterDupes", "Invert", "Set", "X"}

\* cls._simplifications
Simplifications(c) ==
    CASE c = "OperatorPlus" ->
            <<"assoc", "scalars_to_op", "orderby", "filter_neutral", "match_replace_binary">>
      [] c = "OperatorTimes" ->
            <<"assoc", "orderby", "filter_neutral", "match_replace_binary">>
      [] c = "KetPlus" ->
            <<"accept_bras", "assoc", "orderby", "filter_neutral", "check_kets_same_space",
              "match_replace_binary">>
      [] c = "TensorKet" ->
            <<"accept_bras", "assoc", "orderby", "filter_neutral", "match_replace_binary">>
      [] c = "Commutator" ->
            <<"scalars_to_op", "disjunct_hs_zero", "commutator_order", "match_replace">>
      [] c = "FilterDupes" -> <<"match_replace_binary", "assoc">>
      [] c = "Invert" -> <<"match_replace">>
      [] c = "Set" -> <<"idem">>
      [] c = "X" -> <<"match_replace">>

\* cls.neutral_element
neutral_element(c) ==
    CASE c = "OperatorPlus" -> ZeroOperator
      [] c = "OperatorTimes" -> IdentityOperator
      [] c = "KetPlus" -> ZeroKet
      [] c = "TensorKet" -> TrivialKet
      [] c = "FilterDupes" -> IntVal(0)
      [] OTHER -> None

(***************************************************************************)
(* The passes                                                              *)
(***************************************************************************)
assoc(c, ops, kw) ==
    LET expanded == [i \in 1..Len(ops) |->
                        IF IsInstance(ops[i], c) THEN ops[i].args ELSE <<ops[i]>>]
    IN Pair(Flatten(expanded), kw)

\* set(ops), and the orders in which iterating over a set may give its
\* elements
SetOf(ops) == {ops[i] : i \in 1..Len(ops)}
Iterations(S) ==
    {it \in [1..Cardinality(S) -> S] : \A i, j \in 1..Cardinality(S) : it[i] = it[j] => i = j}

\* a variant that sorts the operands and keeps the duplicates
idem_keep_duplicates(c, ops, kw) == {Pair(Sorted(c, ops), kw)}

\* the values idem may return: sorted(set(ops), key=cls.order_key) for each
\* order in which the set may be iterated
idem(c, ops, kw) == {Pair(Sorted(c, it), kw) : it \in Iterations(SetOf(ops))}

\* a variant that leaves the operands in the order given
orderby_as_given(c, ops, kw) == Pair(ops, kw)

orderby(c, ops, kw) == Pair(Sorted(c, ops), kw)

\* a variant that hands a single remaining operand on as a one-element list
filter_neutral_wrapped(c, ops, kw) ==
    LET c_n == neutral_element(c)
        fops == SelectSeq(ops, LAMBDA op : c_n # op)
    IN IF Len(ops) = 0 THEN Final(c_n)
       ELSE IF Len(fops) >= 1 THEN Pair(fops, kw)
       ELSE Final(ops[1])

filter_neutral(c, ops, kw) ==
    LET c_n == neutral_element(c)
        fops == SelectSeq(ops, LAMBDA op : c_n # op)
    IN IF Len(ops) = 0 THEN Final(c_n)
       ELSE IF Len(fops) > 1 THEN Pair(fops, kw)
       ELSE IF Len(fops) = 1 THEN Final(fops[1])
       ELSE Final(ops[1])

\* ScalarTimesOperator.create(coeff, term): a unit coefficient gives the term,
\* a zero coefficient or a zero term gives ZeroOperator, and the coefficient
\* of a term that is a numeric multiple itself is multiplied into coeff
ScalarTimesOperator_create(coeff, term) ==
    IF coeff = 1 THEN term
    ELSE IF coeff = 0 \/ term = ZeroOperator THEN ZeroOperator
    ELSE IF term.t = "ScalarTimesOperator" /\ Power(term) = 0
    THEN IF coeff * term.coeff = 1 THEN term.term
         ELSE ScalarTimesOperatorNode(coeff * term.coeff, term.term)
    ELSE ScalarTimesOperatorNode(coeff, term)

scalars_to_op(c, ops, kw) ==
    Pair([i \in 1..Len(ops) |->
            IF ops[i].t \in SCALAR_TYPES
            THEN ScalarTimesOperator_create(ops[i].v, IdentityOperator)
            ELSE ops[i]], kw)

\* a variant that counts the space of ZeroKet among the spaces
check_kets_same_space_counting_zero(c, ops, kw) ==
    IF \E i \in 1..Len(ops) : ~IsKet(ops[i]) THEN Final(TypeError)
    ELSE IF Cardinality({space(ops[i]) : i \in 1..Len(ops)}) # 1
    THEN Final(UnequalSpaces)
    ELSE Pair(ops, kw)

\* check_kets_same_space(cls, ops, kwargs); what a pass raises ends create
\* as a value that a pass returns does
check_kets_same_space(c, ops, kw) ==
    IF \E i \in 1..Len(ops) : ~IsKet(ops[i]) THEN Final(TypeError)
    ELSE IF Cardinality({space(ops[i]) : i \in {j \in 1..Len(ops) : ops[j] # ZeroKet}}) # 1
    THEN Final(UnequalSpaces)
    ELSE Pair(ops, kw)

(***************************************************************************)
(* The constructor                                                         *)
(***************************************************************************)
\* a variant in which an operation has the space of its first operand
QuantumOperation_space_of_first(ops) == space(ops[1])

\* QuantumOperation.__init__: ProductSpace.create(*[o.space for o in operands])
QuantumOperation_space(ops) == UNION {space(ops[i]) : i \in 1..Len(ops)}

\* cls(*ops) for a class of states: the operands are states and none is a
\* Bra; the space is computed once and stored with the instance
State_init(c, ops, kw) ==
    IF \E i \in 1..Len(ops) : IsBra(ops[i]) THEN TypeError
    ELSE IF \E i \in 1..Len(ops) : ~IsKet(ops[i]) THEN AssertionError
    ELSE [t |-> c, args |-> ops, kwargs |-> kw, stored_space |-> QuantumOperation_space(ops)]

\* cls(*args, **kwargs): sums and products require at least two operands
Constructor(c, ops, kw) ==
    IF c \in {"OperatorPlus", "OperatorTimes", "KetPlus", "TensorKet"} /\ Len(ops) <= 1
    THEN TypeError
    ELSE IF c \in {"KetPlus", "TensorKet"} THEN State_init(c, ops, kw)
    ELSE Node(c, ops, kw)

(***************************************************************************)
(* Adjoint                                                                 *)
(***************************************************************************)
\* orderby and filter_neutral on the operands the pass before returned
orderby_after(c, simplified) == orderby(c, simplified.ops, simplified.kwargs)
filter_neutral_after(c, simplified) == filter_neutral(c, simplified.ops, simplified.kwargs)

\* the end of create's loop: the constructor, unless a pass returned a value
Built(c, simplified) ==
    IF simplified.pair
    THEN Constructor(c, simplified.ops, simplified.kwargs)
    ELSE simplified.val

\* OperatorTimes.create(*ops): the passes of OperatorTimes, whose table of
\* binary rules is empty, so that match_replace_binary returns its operands
OperatorTimes_create(ops) ==
    Built("OperatorTimes",
          filter_neutral_after(
              "OperatorTimes",
              orderby_after("OperatorTimes", assoc("OperatorTimes", ops, NoKwargs))))

\* a variant that wraps every operand in an Adjoint node
adjoint_wrapped(x) == Adjoint(x)

RECURSIVE adjoint(_)
adjoint(x) ==
    CASE x.t = "OperatorSymbol" -> Adjoint(x)
      [] x.t = "Adjoint" -> x.operand
      [] x.t = "ZeroOperator" -> x
      [] x.t = "IdentityOperator" -> x
      [] x.t = "ScalarTimesOperator" -> [x EXCEPT !.term = adjoint(x.term)]
      [] x.t = "OperatorPlusMinusCC" -> OperatorPlusMinusCC(adjoint(x.operand), x.sign)
      [] x.t = "OperatorPlus" ->
            Node("OperatorPlus", [i \in 1..Len(x.args) |-> adjoint(x.args[i])], x.kwargs)
      [] x.t = "OperatorTimes" ->
            OperatorTimes_create(Reverse([i \in 1..Len(x.args) |-> adjoint(x.args[i])]))

(***************************************************************************)
(* Rules.  A rule is named; its pattern is matched against the operand     *)
(* list (a ProtoExpr) and gives the bound wildcards or no match; its       *)
(* replacement callable returns a value or raises CannotSimplify.          *)
(***************************************************************************)
NoMatch == [ok |-> FALSE]
Bound(A, B, c, d) == [ok |-> TRUE, A |-> A, B |-> B, c |-> c, d |-> d]
CannotSimplify == [raised |-> TRUE]
Replaced(v) == [raised |-> FALSE, val |-> v]

UnaryRules == {"r1", "r2", "r3", "decline"}
\* the rule table of the docstring class X (its rule r1)
XRules == <<"Xr1">>
BinaryRules == {"filter_dupes", "pmCC1", "pmCC2", "pmCC3"}
\* binary rules given to the reducer besides filter_dupes: cancel replaces a
\* number and its negative by the neutral element of FilterDupes, swap
\* replaces a pair by the instance of the class on the swapped pair
ReducerRules == {"filter_dupes", "cancel", "swap"}

\* match_pattern(pat, ProtoExpr(ops, kwargs)) for the pattern of the rule
match_pattern(rule, ops) ==
    CASE rule = "r1" ->        \* pattern_head(pattern(Invert, A))
            IF Len(ops) = 1 /\ IsInstance(ops[1], "Invert") /\ Len(ops[1].args) = 1
            THEN Bound(ops[1].args[1], None, None, None) ELSE NoMatch
      [] rule = "r2" ->        \* pattern_head(wc("A", head=float))
            IF Len(ops) = 1 /\ IsInstance(ops[1], "float")
            THEN Bound(ops[1], None, None, None) ELSE NoMatch
      [] rule \in {"r3", "decline"} ->   \* pattern_head(wc("A"))
            IF Len(ops) = 1 THEN Bound(ops[1], None, None, None) ELSE NoMatch
      [] rule \in {"filter_dupes", "Xr1"} ->   \* pattern_head(A, A)
            IF Len(ops) = 2 /\ ops[1] = ops[2]
            THEN Bound(ops[1], None, None, None) ELSE NoMatch
      [] rule = "cancel" ->    \* pattern_head(A, B), lambda A, B with A == -B
            IF Len(ops) = 2 /\ ops[1].t = "int" /\ ops[2].t = "int"
            THEN Bound(ops[1], ops[2], None, None) ELSE NoMatch
      [] rule = "swap" ->      \* pattern_head(A, B)
            IF Len(ops) = 2 THEN Bound(ops[1], ops[2], None, None) ELSE NoMatch
      [] rule = "pmCC1" ->     \* pattern_head(A, B), both with head Operator
            IF Len(ops) = 2 /\ IsOperator(ops[1]) /\ IsOperator(ops[2])
            THEN Bound(ops[1], ops[2], None, None) ELSE NoMatch
      [] rule = "pmCC2" ->     \* pattern_head(pattern(ScalarTimesOperator, -1, B), A)
            IF /\ Len(ops) = 2
               /\ IsInstance(ops[1], "ScalarTimesOperator")
               /\ ops[1].coeff = -1
               /\ IsOperator(ops[2])
            THEN Bound(ops[2], ops[1].term, None, None) ELSE NoMatch
      [] rule = "pmCC3" ->     \* pattern_head(pattern(STO, c, A), pattern(STO, d, B))
            IF /\ Len(ops) = 2
               /\ IsInstance(ops[1], "ScalarTimesOperator")
               /\ IsInstance(ops[2], "ScalarTimesOperator")
            THEN Bound(ops[1].term, ops[2].term, ops[1].coeff, ops[2].coeff) ELSE NoMatch

_combine_operator_p_cc(A, B) ==
    IF adjoint(B) = A THEN Replaced(OperatorPlusMinusCC(A, 1)) ELSE CannotSimplify

_combine_operator_m_cc(A, B) ==
    IF adjoint(B) = A THEN Replaced(OperatorPlusMinusCC(A, -1)) ELSE CannotSimplify

_scal_combine_operator_pm_cc(c, A, d, B) ==
    IF adjoint(B) = A
    THEN IF c = d
         THEN Replaced(ScalarTimesOperator_create(c, OperatorPlusMinusCC(A, 1)))
         ELSE IF c = 0 - d
         THEN Replaced(ScalarTimesOperator_create(c, OperatorPlusMinusCC(A, -1)))
         ELSE CannotSimplify
    ELSE CannotSimplify

\* replacement(**match_dict) for the replacement callable of the rule
replacement(rule, m) ==
    CASE rule = "r1" -> Replaced(m.A)                             \* lambda A: A
      [] rule = "r2" -> Replaced(Float(m.A.den, m.A.num))         \* lambda A: 1./A
      [] rule = "r3" -> Replaced(m.A)                             \* lambda A: A
      [] rule = "decline" -> CannotSimplify
      [] rule = "filter_dupes" -> Replaced(m.A)                   \* lambda A: A
      [] rule = "Xr1" -> Replaced(m.A)                            \* lambda A: A
      [] rule = "cancel" ->
            IF m.A.v # 0 /\ m.A.v + m.B.v = 0 THEN Replaced(IntVal(0)) ELSE CannotSimplify
      [] rule = "swap" -> Replaced(Node("FilterDupes", <<m.B, m.A>>, NoKwargs))
      [] rule = "pmCC1" -> _combine_operator_p_cc(m.A, m.B)
      [] rule = "pmCC2" -> _combine_operator_m_cc(m.A, m.B)
      [] rule = "pmCC3" -> _scal_combine_operator_pm_cc(m.c, m.A, m.d, m.B)

\* create_operator_pm_cc(): the rules for extra_binary_rules(OperatorPlus, ...)
create_operator_pm_cc == <<"pmCC1", "pmCC2", "pmCC3">>

(***************************************************************************)
(* match_replace: the first rule of the table, in insertion order, that    *)
(* matches and whose replacement does not raise CannotSimplify.            *)
(***************************************************************************)
\* a variant of the loop that gives up at the first rule whose replacement
\* raises CannotSimplify
RECURSIVE match_replace_until_declined(_, _, _, _)
match_replace_until_declined(table, i, ops, kw) ==
    IF i > Len(table) THEN Pair(ops, kw)
    ELSE LET match_dict == match_pattern(table[i], ops)
         IN IF match_dict.ok
            THEN LET replaced == replacement(table[i], match_dict)
                 IN IF replaced.raised THEN Pair(ops, kw) ELSE Final(replaced.val)
            ELSE match_replace_until_declined(table, i + 1, ops, kw)

\* the try block of the loop: the value the replacement returned, or, when
\* it raised CannotSimplify, what the rules after it give
ReplacedOrElse(replaced, otherwise) ==
    IF replaced.raised THEN otherwise ELSE Final(replaced.val)

RECURSIVE match_replace_from(_, _, _, _)
match_replace_from(table, i, ops, kw) ==
    IF i > Len(table) THEN Pair(ops, kw)
    ELSE IF match_pattern(table[i], ops).ok
         THEN ReplacedOrElse(replacement(table[i], match_pattern(table[i], ops)),
                             match_replace_from(table, i + 1, ops, kw))
         ELSE match_replace_from(table, i + 1, ops, kw)

\* the loop of match_replace with the flags LOG and LOG_NO_MATCH: the local
\* variable logger is assigned only when LOG is set, and read when a rule
\* that did not apply is logged
RECURSIVE match_replace_logging_from(_, _, _, _, _, _)
match_replace_logging_from(table, i, ops, kw, log, log_no_match) ==
    IF i > Len(table) THEN Pair(ops, kw)
    ELSE IF match_pattern(table[i], ops).ok
              /\ ~replacement(table[i], match_pattern(table[i], ops)).raised
         THEN Final(replacement(table[i], match_pattern(table[i], ops)).val)
         ELSE IF log_no_match /\ ~log THEN Final(UnboundLocalError)
              ELSE match_replace_logging_from(table, i + 1, ops, kw, log, log_no_match)

\* variants of match_replace: one that applies no rule, one that tries the
\* rules last to first, one that forgets the keyword arguments when no rule
\* applies
match_replace_no_rule(table, ops, kw) == Pair(ops, kw)

match_replace_last_first(table, ops, kw) ==
    match_replace_from(Reverse(table), 1, ops, kw)

match_replace_no_kwargs(table, ops, kw) ==
    LET r == match_replace_from(table, 1, ops, kw)
    IN IF r.pair THEN Pair(r.ops, NoKwargs) ELSE r

match_replace(table, ops, kw) == match_replace_from(table, 1, ops, kw)

(***************************************************************************)
(* match_replace_binary and the divide-and-conquer reducer                 *)
(***************************************************************************)
\* the try block of the loop of _get_binary_replacement
BinaryReplacedOrElse(replaced, otherwise) ==
    IF replaced.raised THEN otherwise ELSE replaced.val

RECURSIVE binary_replacement_from(_, _, _, _)
binary_replacement_from(table, i, first, second) ==
    IF i > Len(table) THEN None
    ELSE IF match_pattern(table[i], <<first, second>>).ok
         THEN BinaryReplacedOrElse(
                  replacement(table[i], match_pattern(table[i], <<first, second>>)),
                  binary_replacement_from(table, i + 1, first, second))
         ELSE binary_replacement_from(table, i + 1, first, second)

_get_binary_replacement(first, second, table) ==
    binary_replacement_from(table, 1, first, second)

RECURSIVE _match_replace_binary_combine(_, _, _, _)
\* the combination of the non-empty lists a and b, given the replacement r
\* of the pair (a[-1], b[0])
CombinedBy(c, table, a, b, r) ==
    IF r = None THEN a \o b
    ELSE IF r = neutral_element(c)
    THEN _match_replace_binary_combine(c, table, SubSeq(a, 1, Len(a) - 1), Tail(b))
    ELSE _match_replace_binary_combine(
             c, table,
             _match_replace_binary_combine(
                 c, table, SubSeq(a, 1, Len(a) - 1),
                 IF IsInstance(r, c) THEN r.args ELSE <<r>>),
             Tail(b))

_match_replace_binary_combine(c, table, a, b) ==
    IF Len(a) = 0 \/ Len(b) = 0 THEN a \o b
    ELSE CombinedBy(c, table, a, b, _get_binary_replacement(a[Len(a)], b[1], table))

RECURSIVE _match_replace_binary(_, _, _)
_match_replace_binary(c, table, ops) ==
    LET n == Len(ops)
    IN IF n <= 1 THEN ops
       ELSE _match_replace_binary_combine(
                c, table,
                _match_replace_binary(c, table, SubSeq(ops, 1, n \div 2)),
                _match_replace_binary(c, table, SubSeq(ops, (n \div 2) + 1, n)))

\* a variant that hands a single remaining operand on as a one-element list
match_replace_binary_wrapped(c, table, ops, kw) ==
    LET fops == _match_replace_binary(c, table, ops)
    IN IF Len(fops) = 0 THEN Final(neutral_element(c)) ELSE Pair(fops, kw)

\* what match_replace_binary returns for the reduced operands fops
ReducedTo(c, fops, kw) ==
    IF Len(fops) = 1 THEN Final(fops[1])
    ELSE IF Len(fops) = 0 THEN Final(neutral_element(c))
    ELSE Pair(fops, kw)

match_replace_binary(c, table, ops, kw) ==
    ReducedTo(c, _match_replace_binary(c, table, ops), kw)

(***************************************************************************)
(* Construction                                                            *)
(***************************************************************************)
\* simplification(cls, args, kwargs) for the pass of the given name
RunPass(name, c, ut, bt, ops, kw) ==
    CASE name = "assoc" -> assoc(c, ops, kw)
      [] name = "idem" -> CHOOSE simplified \in idem(c, ops, kw) : TRUE
      [] name = "scalars_to_op" -> scalars_to_op(c, ops, kw)
      [] name = "orderby" -> orderby(c, ops, kw)
      [] name = "filter_neutral" -> filter_neutral(c, ops, kw)
      [] name = "match_replace" -> match_replace(ut, ops, kw)
      [] name = "match_replace_binary" -> match_replace_binary(c, bt, ops, kw)
      [] name = "check_kets_same_space" -> check_kets_same_space(c, ops, kw)

\* cls.create(*ops, **kw) with the rule tables ut (cls._rules) and
\* bt (cls._binary_rules), from pass i on
RECURSIVE create_from(_, _, _, _, _, _)
\* the loop of create after pass i returned simplified
create_after(c, ut, bt, i, simplified) ==
    IF simplified.pair
    THEN create_from(c, ut, bt, i + 1, simplified.ops, simplified.kwargs)
    ELSE simplified.val

create_from(c, ut, bt, i, ops, kw) ==
    IF i > Len(Simplifications(c)) THEN Constructor(c, ops, kw)
    ELSE create_after(c, ut, bt, i, RunPass(Simplifications(c)[i], c, ut, bt, ops, kw))

create(c, ut, bt, ops, kw) == create_from(c, ut, bt, 1, ops, kw)

\* Bra.create(ket); what create raised is handed on
Bra_create(ket) == IF Raised(ket) THEN ket ELSE Bra(ket)

\* a variant that takes the kets of the Bras among the operands as soon as
\* the first operand is a Bra
accept_bras_of_first(c, ops, kw) ==
    IF ops = << >> THEN Final(RecursionError)
    ELSE IF ~IsBra(ops[1]) THEN Pair(ops, kw)
    ELSE Final(Bra_create(create_from(c, << >>, << >>, 2,
                                      [i \in 1..Len(ops) |->
                                          IF IsBra(ops[i]) THEN ops[i].operand
                                          ELSE ops[i]], kw)))

\* accept_bras(cls, ops, kwargs): when every operand is a Bra the value is
\* Bra.create(cls.create(*kets, **kwargs)), and in that call of create
\* accept_bras returns the kets, none of which is a Bra; without operands
\* the call of create never ends but in RecursionError
accept_bras(c, ops, kw) ==
    IF \E i \in 1..Len(ops) : ~IsBra(ops[i]) THEN Pair(ops, kw)
    ELSE IF ops = << >> THEN Final(RecursionError)
    ELSE Final(Bra_create(create_from(c, << >>, << >>, 2,
                                      [i \in 1..Len(ops) |-> ops[i].operand], kw)))

(***************************************************************************)
(* Arithmetic of expressions.  The sums and products that the methods of   *)
(* an expression build are made by create() with the empty tables of       *)
(* binary rules, so that match_replace_binary returns its operands.        *)
(***************************************************************************)
\* OperatorPlus.create(*ops)
OperatorPlus_create(ops) ==
    Built("OperatorPlus",
          filter_neutral_after(
              "OperatorPlus",
              orderby_after(
                  "OperatorPlus",
                  scalars_to_op("OperatorPlus",
                                assoc("OperatorPlus", ops, NoKwargs).ops, NoKwargs))))

\* coeff * term, where coeff is a scalar: ScalarTimesOperator.create(coeff, term)
scalar_times_expr(coeff, term) ==
    IF Raised(coeff) THEN coeff
    ELSE IF Raised(term) THEN term
    ELSE IF coeff.p = 0 THEN ScalarTimesOperator_create(coeff.c, term)
    ELSE IF coeff.c = 0 \/ term = ZeroOperator THEN ZeroOperator
    ELSE SymbolicTimesOperatorNode(coeff.c, coeff.p, term)

\* a * b: a scalar factor gives a ScalarTimesOperator, two operators a product
mul(a, b) ==
    IF Raised(a) THEN a
    ELSE IF Raised(b) THEN b
    ELSE IF a.t = "Scalar" THEN scalar_times_expr(a, b)
    ELSE IF b.t = "Scalar" THEN scalar_times_expr(b, a)
    ELSE OperatorTimes_create(<<a, b>>)

\* self._one * other for an operand of a sum that is not an operator
AsOperator(v) == IF v.t = "Scalar" THEN scalar_times_expr(v, IdentityOperator) ELSE v

\* a + b; a scalar on the left hands the sum to b.__radd__(a)
add(a, b) ==
    IF Raised(a) THEN a
    ELSE IF Raised(b) THEN b
    ELSE OperatorPlus_create(IF a.t = "Scalar"
                             THEN <<b, AsOperator(a)>>
                             ELSE <<a, AsOperator(b)>>)

\* sum(terms, start)
RECURSIVE sum(_, _)
sum(terms, start) ==
    IF terms = << >> THEN start ELSE sum(Tail(terms), add(start, Head(terms)))

(***************************************************************************)
(* Free symbols and the calculus of scalars                                *)
(***************************************************************************)
\* the scalar symbols: t appears in coefficients, s in no expression
ScalarSymbols == {"t", "s"}

RECURSIVE free_symbols(_)
free_symbols(x) ==
    CASE x.t = "Scalar" -> IF x.p > 0 /\ x.c # 0 THEN {"t"} ELSE {}
      [] x.t = "ScalarTimesOperator" -> free_symbols(Coeff(x)) \cup free_symbols(x.term)
      [] x.t \in {"Adjoint", "OperatorPlusMinusCC"} -> free_symbols(x.operand)
      [] x.t \in {"OperatorPlus", "OperatorTimes"} ->
            UNION {free_symbols(x.args[i]) : i \in 1..Len(x.args)}
      [] OTHER -> {}

\* v.is_zero: v == v._zero
is_zero(v) == IF v.t = "Scalar" THEN v.c = 0 ELSE v = ZeroOperator

\* v == 0 and v == 1: an operator never equals a number, but for a
\* ScalarTimesOperator of the identity, which equals its coefficient
EqualsNumber(v, n) ==
    IF v.t = "Scalar" THEN v.p = 0 /\ v.c = n
    ELSE /\ v.t = "ScalarTimesOperator"
         /\ v.term = IdentityOperator
         /\ Power(v) = 0
         /\ v.coeff = n

\* c.diff(sym) for the scalar c
scalar_diff(c, sym) ==
    IF sym = "t" /\ c.p > 0 /\ c.c # 0 THEN Scalar(c.c * c.p, c.p - 1) ELSE Zero

\* c.series_expand(param, 0, order) for the scalar c: the coefficients of
\* 1, param, ..., param**order
scalar_series_expand(c, param, order) ==
    [n \in 1..(order + 1) |->
        IF c.c = 0 THEN Zero
        ELSE IF param = "t" THEN (IF n - 1 = c.p THEN Scalar(c.c, 0) ELSE Zero)
        ELSE IF n = 1 THEN c
        ELSE Zero]

(***************************************************************************)
(* expand and simplify_scalar                                              *)
(***************************************************************************)
\* cartesian_product(*lists): the tuples with one element of every list,
\* the last list varying fastest
RECURSIVE cartesian_product(_)
cartesian_product(lists) ==
    IF lists = << >> THEN << << >> >>
    ELSE Flatten([i \in 1..Len(Head(lists)) |->
                    [j \in 1..Len(cartesian_product(Tail(lists))) |->
                        <<Head(lists)[i]>> \o cartesian_product(Tail(lists))[j]]])

\* the operands of a sum, or the one-element list of another expression
Summands(eo) == IF eo.t = "OperatorPlus" THEN eo.args ELSE <<eo>>

\* the first exception among the values, or the value otherwise
FirstRaised(values, otherwise) ==
    IF \E i \in 1..Len(values) : Raised(values[i])
    THEN values[CHOOSE i \in 1..Len(values) :
                    /\ Raised(values[i])
                    /\ \A j \in 1..(i - 1) : ~Raised(values[j])]
    ELSE otherwise

\* the end of QuantumAdjoint._expand for the expanded operand eo: the
\* summands of a sum have no method adjoin
Adjoint_expanded(eo) ==
    IF Raised(eo) THEN eo
    ELSE IF eo.t = "OperatorPlus" THEN AttributeError
    ELSE adjoint(eo)

\* the end of ScalarTimesQuantumExpression._expand for the expanded term et
ScalarTimes_expanded(c, et) ==
    IF Raised(et) THEN et
    ELSE IF et.t = "OperatorPlus"
    THEN OperatorPlus_create([i \in 1..Len(et.args) |-> scalar_times_expr(c, et.args[i])])
    ELSE scalar_times_expr(c, et)

\* the sum of the products of QuantumTimes._expand for the expanded factors
Times_summed(eops) ==
    FirstRaised(eops,
                OperatorPlus_create(
                    [k \in 1..Len(cartesian_product([i \in 1..Len(eops) |-> Summands(eops[i])])) |->
                        OperatorTimes_create(
                            cartesian_product([i \in 1..Len(eops) |-> Summands(eops[i])])[k])]))

\* x.expand()
RECURSIVE expand(_)
\* the end of QuantumTimes._expand: a sum is expanded again
Times_expanded(ret) == IF ret.t = "OperatorPlus" THEN expand(ret) ELSE ret

expand(x) ==
    CASE x.t = "ScalarTimesOperator" -> ScalarTimes_expanded(Coeff(x), expand(x.term))
      [] x.t = "Adjoint" -> Adjoint_expanded(expand(x.operand))
      [] x.t = "OperatorPlus" ->
            FirstRaised([i \in 1..Len(x.args) |-> expand(x.args[i])],
                        OperatorPlus_create([i \in 1..Len(x.args) |-> expand(x.args[i])]))
      [] x.t = "OperatorTimes" ->
            Times_expanded(Times_summed([i \in 1..Len(x.args) |-> expand(x.args[i])]))
      [] OTHER -> x

\* Operation._simplify_scalar for the simplified operands
Operation_simplified(x, simplified_operands) ==
    IF simplified_operands = x.args THEN x
    ELSE IF x.t = "OperatorPlus" THEN OperatorPlus_create(simplified_operands)
    ELSE OperatorTimes_create(simplified_operands)

\* Operation._simplify_scalar of an Adjoint for the simplified operand
Single_simplified(x, new_op) == IF new_op = x.operand THEN x ELSE adjoint(new_op)

\* x.simplify_scalar(): sympy.simplify returns a monomial as it is
RECURSIVE simplify_scalar(_)
simplify_scalar(x) ==
    CASE Raised(x) -> x
      [] x.t = "ScalarTimesOperator" -> scalar_times_expr(Coeff(x), simplify_scalar(x.term))
      [] x.t \in {"OperatorPlus", "OperatorTimes"} ->
            Operation_simplified(x, [i \in 1..Len(x.args) |-> simplify_scalar(x.args[i])])
      [] x.t = "Adjoint" -> Single_simplified(x, simplify_scalar(x.operand))
      [] OTHER -> x

(***************************************************************************)
(* Differentiation                                                         *)
(***************************************************************************)
\* a variant of diff that enters its loop for every symbol
diff_applies_always(x, sym) == TRUE

\* the condition on which diff enters its loop:
\* sym.free_symbols.issubset(self.free_symbols)
diff_applies(x, sym) == {sym} \subseteq free_symbols(x)

\* Adjoint.create(op), which delegates to op._adjoint()
Adjoint_create(op) == IF Raised(op) THEN op ELSE adjoint(op)

\* x.diff(sym): the derivative of first order, expanded and simplified
RECURSIVE diff(_, _)
\* x._diff(sym); the classes of atomic operators do not define it
RECURSIVE _diff(_, _)
_diff(x, sym) ==
    CASE Raised(x) -> x
      [] x.t = "ScalarTimesOperator" ->
            add(scalar_times_expr(scalar_diff(Coeff(x), sym), x.term),
                scalar_times_expr(Coeff(x), diff(x.term, sym)))
      [] x.t = "Adjoint" -> Adjoint_create(diff(x.operand, sym))
      [] x.t = "OperatorPlus" ->
            sum([i \in 1..Len(x.args) |-> diff(x.args[i], sym)], ZeroOperator)
      [] x.t = "OperatorTimes" ->
            add(mul(diff(x.args[1], sym), OperatorTimes_create(Tail(x.args))),
                mul(x.args[1], diff(OperatorTimes_create(Tail(x.args)), sym)))
      [] x.t = "OperatorPlusMinusCC" -> AttributeError
      [] OTHER -> NotImplementedError

diff(x, sym) ==
    IF diff_applies(x, sym)
    THEN simplify_scalar(expand(_diff(x, sym)))
    ELSE ZeroOperator

(***************************************************************************)
(* Series expansion about the point 0.  An expansion is the tuple of its   *)
(* coefficients, the coefficient of param**n at position n + 1.            *)
(***************************************************************************)
\* the summand of the coefficient n that the coefficient k of c1 contributes
Summand(c1, c2, n, k) ==
    IF is_zero(c1[k + 1]) \/ is_zero(c2[n - k + 1]) THEN Zero
    ELSE mul(c1[k + 1], c2[n - k + 1])

\* the loop that adds the summands that do not equal 0 to the first one
RECURSIVE Accumulated(_, _)
Accumulated(acc, summands) ==
    IF summands = << >> THEN acc
    ELSE Accumulated(IF ~EqualsNumber(Head(summands), 0)
                     THEN add(acc, Head(summands))
                     ELSE acc,
                     Tail(summands))

_series_expand_combine_prod(c1, c2, order) ==
    [m \in 1..(order + 1) |->
        Accumulated(Summand(c1, c2, m - 1, 0),
                    [k \in 1..(m - 1) |-> Summand(c1, c2, m - 1, k)])]

\* the coefficient series_expand returns for the coefficient v of the
\* expansion: the canonical zero and one of the algebra
TypeStable(v) ==
    IF EqualsNumber(v, 0) \/ is_zero(v) THEN ZeroOperator
    ELSE IF EqualsNumber(v, 1) THEN IdentityOperator
    ELSE v

\* the tuple a method returns
Tuple(items) == [t |-> "tuple", items |-> items]

\* the loop of series_expand over the expansion, with its assertion
Stabilised(expansion) ==
    IF \E i \in 1..Len(expansion) : ~IsOperator(TypeStable(expansion[i]))
    THEN AssertionError
    ELSE Tuple([i \in 1..Len(expansion) |-> TypeStable(expansion[i])])

RECURSIVE series_expand(_, _, _)
\* x._series_expand(param, 0, order); an expression is constant by default
RECURSIVE _series_expand(_, _, _)
_series_expand(x, param, order) ==
    CASE x.t = "ScalarTimesOperator" ->
            _series_expand_combine_prod(scalar_series_expand(Coeff(x), param, order),
                                        series_expand(x.term, param, order).items, order)
      [] x.t \in {"Adjoint", "OperatorPlusMinusCC"} ->
            [n \in 1..(order + 1) |-> adjoint(series_expand(x.operand, param, order).items[n])]
      [] x.t = "OperatorPlus" ->
            [n \in 1..(order + 1) |->
                OperatorPlus_create([i \in 1..Len(x.args) |->
                                        series_expand(x.args[i], param, order).items[n]])]
      [] x.t = "OperatorTimes" ->
            _series_expand_combine_prod(
                series_expand(x.args[1], param, order).items,
                series_expand(IF Len(x.args) > 2
                              THEN Constructor("OperatorTimes", Tail(x.args), NoKwargs)
                              ELSE x.args[2], param, order).items,
                order)
      [] OTHER -> <<x>> \o [n \in 1..order |-> Zero]

\* x.series_expand(param, 0, order)
series_expand(x, param, order) == Stabilised(_series_expand(x, param, order))

(***************************************************************************)
(* The inputs of the model                                                 *)
(***************************************************************************)
SymA == OperatorSymbol(1, LocalSpace(1))
SymB == OperatorSymbol(2, LocalSpace(1))
SymC == OperatorSymbol(3, LocalSpace(2))
\* symbols on the spaces 3, 4 and on the product space of 2 and 4
SymM == OperatorSymbol(4, LocalSpace(3))
SymX == OperatorSymbol(5, LocalSpace(4))
SymY == OperatorSymbol(6, ProductSpace(<<2, 4>>))

\* OperatorPlus.create(A, B.dag()), and its adjoint as QuantumPlus._adjoint
\* builds it: the sum of the operands' adjoints, by the constructor
SumAB == Node("OperatorPlus", <<SymA, Adjoint(SymB)>>, NoKwargs)
SumABdag == Node("OperatorPlus", <<Adjoint(SymA), SymB>>, NoKwargs)

\* FilterDupes.create(1, 2) and FilterDupes.create(1, FilterDupes.create(1, 2))
Dupes12 == Node("FilterDupes", <<IntVal(1), IntVal(2)>>, NoKwargs)
Dupes112 == Node("FilterDupes", <<IntVal(1), IntVal(1), IntVal(2)>>, NoKwargs)

\* the operands create is called with
Pool(c) ==
    CASE c = "OperatorPlus" ->
            {SymA, Adjoint(SymA), Adjoint(SymB), ZeroOperator, IntVal(2),
             ScalarTimesOperatorNode(-1, SymA), SumABdag}
      [] c = "OperatorTimes" ->
            {SymA, Adjoint(SymA), SymC, IdentityOperator,
             Node("OperatorTimes", <<SymA, SymC>>, NoKwargs)}
      [] c = "FilterDupes" ->
            {IntVal(0), IntVal(1), IntVal(2), Dupes12, Dupes112}
      [] c = "Invert" ->
            {Str("hallo"), Float(1, 5), Node("Invert", <<Str("x")>>, NoKwargs)}
      [] c = "Set" -> {IntVal(1), IntVal(2), IntVal(3)}
      [] c = "X" -> {IntVal(1), IntVal(2), Str("hallo")}

OperandLists(c) ==
    CASE c = "OperatorPlus" -> SeqsUpTo(Pool(c), MaxAlgOps)
      [] c = "OperatorTimes" ->
            SeqsUpTo(Pool(c), MaxAlgOps) \cup [1..MaxFactors -> {SymA, SymM, SymX, SymY}]
      [] c \in {"FilterDupes", "Set"} -> SeqsUpTo(Pool(c), MaxOps)
      [] c \in {"Invert", "X"} -> SeqsUpTo(Pool(c), 2)

KwargsPool(c) ==
    IF c \in {"OperatorPlus", "OperatorTimes", "X"} THEN {NoKwargs}
    ELSE {NoKwargs, << <<"k", 1>> >>}

\* the tables of distinct rules of at most n rules, in every insertion order
RuleTables(S, n) ==
    {tb \in SeqsUpTo(S, n) : \A i, j \in 1..Len(tb) : i # j => tb[i] # tb[j]}

\* the values cls._rules can have
UnaryTables(c) ==
    CASE c = "Invert" -> RuleTables(UnaryRules, MaxRules)
      [] c = "X" -> {XRules}
      [] OTHER -> {<< >>}

\* the values cls._binary_rules can have: the table the class declares, or
\* that table extended within extra_binary_rules
BinaryTables(c) ==
    CASE c = "OperatorPlus" -> {<< >>, create_operator_pm_cc}
      [] c = "FilterDupes" -> {<<"filter_dupes">>}
      [] OTHER -> {<< >>}

(***************************************************************************)
(* The state machine: one create() call, pass by pass, and the             *)
(* re-creation of its result from the result's args and kwargs.            *)
(*   pc      the index of the next pass; past the last pass the            *)
(*           constructor is due; 0 once create has returned                *)
(*   result  what create returned (None before)                            *)
(*   ran     the passes run so far in this call                            *)
(*   built   whether the constructor was invoked in this call              *)
(*   prev    the node whose args are being re-created (None in the first   *)
(*           call)                                                         *)
(*   orig    the operands and kwargs the first call was given              *)
(***************************************************************************)
\* no method of an expression is being called
NoMethodCall ==
    /\ self = None
    /\ other = None
    /\ calls = << >>
    /\ value = None
    /\ frame = None

Init ==
    /\ cls \in Classes
    /\ rules \in UnaryTables(cls)
    /\ brules \in BinaryTables(cls)
    /\ args \in OperandLists(cls)
    /\ kwargs \in KwargsPool(cls)
    /\ pc = 1
    /\ result = None
    /\ ran = << >>
    /\ built = FALSE
    /\ prev = None
    /\ orig = Pair(args, kwargs)
    /\ NoMethodCall
    /\ scopes = << >>

Due(name) ==
    /\ pc \in 1..Len(Simplifications(cls))
    /\ Simplifications(cls)[pc] = name

\* the step of create's loop for a pass that returned simplified
Step(name, simplified) ==
    /\ ran' = Append(ran, name)
    /\ IF simplified.pair
       THEN /\ args' = simplified.ops
            /\ kwargs' = simplified.kwargs
            /\ pc' = pc + 1
            /\ result' = result
       ELSE /\ result' = simplified.val
            /\ pc' = 0
            /\ UNCHANGED <<args, kwargs>>
    /\ UNCHANGED <<cls, rules, brules, built, prev, orig, methodVars, scopes>>

Assoc ==
    /\ Due("assoc")
    /\ Step("assoc", assoc(cls, args, kwargs))

ScalarsToOp ==
    /\ Due("scalars_to_op")
    /\ Step("scalars_to_op", scalars_to_op(cls, args, kwargs))

\* idem returns one of the values it may return
Idem ==
    /\ Due("idem")
    /\ \E simplified \in idem(cls, args, kwargs) : Step("idem", simplified)

Orderby ==
    /\ Due("orderby")
    /\ Step("orderby", orderby(cls, args, kwargs))

FilterNeutral ==
    /\ Due("filter_neutral")
    /\ Step("filter_neutral", filter_neutral(cls, args, kwargs))

MatchReplace ==
    /\ Due("match_replace")
    /\ Step("match_replace", match_replace(rules, args, kwargs))

MatchReplaceBinary ==
    /\ Due("match_replace_binary")
    /\ Step("match_replace_binary", match_replace_binary(cls, brules, args, kwargs))

\* all passes returned a pair: the constructor is invoked
Construct ==
    /\ pc = Len(Simplifications(cls)) + 1
    /\ result' = Constructor(cls, args, kwargs)
    /\ built' = TRUE
    /\ pc' = 0
    /\ UNCHANGED <<cls, rules, brules, args, kwargs, ran, prev, orig, methodVars, scopes>>

\* cls.create(*x.args, **x.kwargs) for the node x that create returned
Recreate ==
    /\ pc = 0
    /\ prev = None
    /\ IsInstance(result, cls)
    /\ prev' = result
    /\ args' = result.args
    /\ kwargs' = result.kwargs
    /\ pc' = 1
    /\ result' = None
    /\ ran' = << >>
    /\ built' = FALSE
    /\ UNCHANGED <<cls, rules, brules, orig, methodVars, scopes>>

Next ==
    \/ Assoc
    \/ ScalarsToOp
    \/ Idem
    \/ Orderby
    \/ FilterNeutral
    \/ MatchReplace
    \/ MatchReplaceBinary
    \/ Construct
    \/ Recreate

Spec == Init /\ [][Next]_vars

(***************************************************************************)
(* The methods of an expression: x * y, x + y and x.adjoint(), called on   *)
(* operators and on the values the calls return.                           *)
(*   self    the expression the first method is called on                  *)
(*   other   the second operand of a product or sum                        *)
(*   calls   the methods called so far, each on the value of the one before*)
(*   value   the value the last call returned (self before the first)      *)
(*   frame   the call of diff or series_expand on self: its arguments,     *)
(*           the count k of diff's loop, and whether the call is in its    *)
(*           loop, has returned or has raised; None without such a call    *)
(***************************************************************************)
\* the operators the methods are called on
Operators ==
    {SymA, SymB, SymC, SymM, SymX, SymY, Adjoint(SymA), Adjoint(SymB),
     IdentityOperator, ZeroOperator, ScalarTimesOperatorNode(2, SymA), SumAB,
     Node("OperatorTimes", <<SymA, Adjoint(SymA)>>, NoKwargs),
     Node("OperatorTimes", <<SymM, SymX>>, NoKwargs),
     Node("OperatorTimes", <<SymA, Adjoint(SymA), SymC>>, NoKwargs),
     OperatorPlusMinusCC(SymA, 1),
     SymbolicTimesOperatorNode(1, 1, SymA),
     SymbolicTimesOperatorNode(1, 2, SymA),
     SymbolicTimesOperatorNode(1, 1, SumAB),
     SymbolicTimesOperatorNode(1, 1, Node("OperatorTimes", <<SymA, SumAB>>, NoKwargs))}

\* no create() call is being followed pass by pass
NoCreateCall ==
    /\ cls = "OperatorPlus"
    /\ rules = << >>
    /\ brules = << >>
    /\ args = << >>
    /\ kwargs = NoKwargs
    /\ pc = 0
    /\ result = None
    /\ ran = << >>
    /\ built = FALSE
    /\ prev = None
    /\ orig = Pair(<< >>, NoKwargs)

MethodInit ==
    /\ NoCreateCall
    /\ scopes = << >>
    /\ self \in Operators
    /\ other \in Operators
    /\ calls = << >>
    /\ value = self
    /\ frame = None

\* the call of a method that returns v
Call(name, v) ==
    /\ frame = None
    /\ calls' = Append(calls, name)
    /\ value' = v
    /\ UNCHANGED <<self, other, frame, createVars, scopes>>

\* self * other
Mul ==
    /\ calls = << >>
    /\ Call("__mul__", create("OperatorTimes", << >>, << >>, <<self, other>>, NoKwargs))

\* self + other
Add ==
    /\ calls = << >>
    /\ Call("__add__", create("OperatorPlus", << >>, << >>, <<self, other>>, NoKwargs))

\* value.adjoint()
TakeAdjoint ==
    /\ Len(calls) < 2
    /\ IsOperator(value)
    /\ Call("adjoint", adjoint(value))

\* the frame of a call of the method on self
Frame(method, sym, n, expand_simplify, k, at) ==
    [method |-> method, sym |-> sym, n |-> n, expand_simplify |-> expand_simplify,
     k |-> k, pc |-> at]

\* where a call that computed v is: it has raised v or returned it
Outcome(v) == IF Raised(v) THEN "raised" ELSE "returned"

\* self.diff(sym, n, expand_simplify) up to the loop: zero is returned
\* at once unless sym is a free symbol of self
Diff ==
    /\ frame = None
    /\ calls = << >>
    /\ \E sym \in ScalarSymbols, n \in 0..MaxDerivative, expand_simplify \in BOOLEAN :
          /\ frame' = Frame("diff", sym, n, expand_simplify, 0,
                            IF diff_applies(self, sym) THEN "loop" ELSE "returned")
          /\ value' = IF diff_applies(self, sym) THEN self ELSE ZeroOperator
    /\ calls' = <<"diff">>
    /\ UNCHANGED <<self, other, createVars, scopes>>

\* one turn of the loop: expr = expr._diff(sym)
DiffStep ==
    /\ frame # None
    /\ frame.pc = "loop"
    /\ frame.k < frame.n
    /\ value' = _diff(value, frame.sym)
    /\ calls' = Append(calls, "_diff")
    /\ frame' = IF Raised(value')
                THEN [frame EXCEPT !.pc = "raised"]
                ELSE [frame EXCEPT !.k = frame.k + 1]
    /\ UNCHANGED <<self, other, createVars, scopes>>

\* after the loop: expr.expand().simplify_scalar() if expand_simplify is set
DiffReturn ==
    /\ frame # None
    /\ frame.pc = "loop"
    /\ frame.k = frame.n
    /\ IF frame.expand_simplify
       THEN /\ value' = simplify_scalar(expand(value))
            /\ calls' = calls \o <<"expand", "simplify_scalar">>
       ELSE UNCHANGED <<value, calls>>
    /\ frame' = [frame EXCEPT !.pc = Outcome(value')]
    /\ UNCHANGED <<self, other, createVars, scopes>>

\* self.series_expand(param, 0, order)
SeriesExpand ==
    /\ frame = None
    /\ calls = << >>
    /\ \E param \in ScalarSymbols, order \in 0..MaxOrder :
          /\ value' = series_expand(self, param, order)
          /\ frame' = Frame("series_expand", param, order, FALSE, 0, Outcome(value'))
    /\ calls' = <<"series_expand">>
    /\ UNCHANGED <<self, other, createVars, scopes>>

MethodNext ==
    \/ Mul
    \/ Add
    \/ TakeAdjoint
    \/ Diff
    \/ DiffStep
    \/ DiffReturn
    \/ SeriesExpand

MethodSpec == MethodInit /\ [][MethodNext]_vars

(***************************************************************************)
(* The state machine of the scoped rule overrides: with-blocks of          *)
(* no_rules(cls), extra_rules(cls, rules) and                              *)
(* extra_binary_rules(cls, rules) are entered and left, normally or by     *)
(* an exception raised in the block, and cls.create is called in them.     *)
(*   rules, brules  cls._rules and cls._binary_rules, as they are now      *)
(*   scopes  the open with-blocks, innermost last, each with the override  *)
(*           it made and the tables it saved on entry                      *)
(*   ran     the blocks entered and the ways blocks were left, in order    *)
(*   orig    the tables before any block was entered                       *)
(*   result  what the last call of cls.create returned                     *)
(***************************************************************************)
Tables(unary, binary) == [rules |-> unary, brules |-> binary]

\* table.update(extra): the rules of the table keep their place, the new
\* rules follow in the order given
Updated(table, extra) ==
    table \o SelectSeq(extra, LAMBDA r : \A i \in 1..Len(table) : table[i] # r)

\* the tables of the class inside a with-block of the given kind
Override(kind, extra, tables) ==
    CASE kind = "no_rules" -> Tables(<< >>, << >>)
      [] kind = "extra_rules" -> Tables(Updated(tables.rules, extra), tables.brules)
      [] kind = "extra_binary_rules" -> Tables(tables.rules, Updated(tables.brules, extra))

\* an open with-block
Scope(kind, extra, saved) == [kind |-> kind, extra |-> extra, saved |-> saved]

\* a variant that leaves the tables as they are when the block is left by
\* an exception
Restored_unless_raised(scope, how, tables) ==
    IF how = "exception" THEN tables ELSE scope.saved

\* the tables after the block is left, normally or by an exception
Restored(scope, how, tables) == scope.saved

\* the classes whose rules are overridden, the rules given to extra_rules
\* and to extra_binary_rules, and the operands of the calls of create
ScopedClasses == {"OperatorPlus", "FilterDupes", "Invert", "X"}
ExtraRules(c) ==
    CASE c = "Invert" -> {<<"r3">>, <<"decline", "r1">>}
      [] c = "X" -> {<<"decline">>}
      [] OTHER -> {}
ExtraBinaryRules(c) ==
    CASE c = "OperatorPlus" -> {create_operator_pm_cc}
      [] c = "FilterDupes" -> {<<"filter_dupes">>}
      [] OTHER -> {}
ScopedOperands(c) ==
    CASE c = "OperatorPlus" -> <<SymA, Adjoint(SymA)>>
      [] c = "Invert" -> <<Float(1, 5)>>
      [] OTHER -> <<IntVal(1), IntVal(1)>>

ScopeInit ==
    /\ cls \in ScopedClasses
    /\ rules \in UnaryTables(cls)
    /\ brules \in BinaryTables(cls)
    /\ orig = Tables(rules, brules)
    /\ scopes = << >>
    /\ ran = << >>
    /\ result = None
    /\ args = << >>
    /\ kwargs = NoKwargs
    /\ pc = 0
    /\ built = FALSE
    /\ prev = None
    /\ NoMethodCall

\* the entry of a with-block: the tables are saved and overridden
Enter(kind, extra) ==
    /\ Len(ran) + Len(scopes) + 2 <= MaxEvents
    /\ scopes' = Append(scopes, Scope(kind, extra, Tables(rules, brules)))
    /\ rules' = Override(kind, extra, Tables(rules, brules)).rules
    /\ brules' = Override(kind, extra, Tables(rules, brules)).brules
    /\ ran' = Append(ran, kind)
    /\ UNCHANGED <<cls, args, kwargs, pc, result, built, prev, orig, methodVars>>

EnterNoRules ==
    /\ Len(scopes) < MaxScopes
    /\ Enter("no_rules", << >>)

EnterExtraRules ==
    /\ Len(scopes) < MaxScopes
    /\ \E extra \in ExtraRules(cls) : Enter("extra_rules", extra)

EnterExtraBinaryRules ==
    /\ Len(scopes) < MaxScopes
    /\ \E extra \in ExtraBinaryRules(cls) : Enter("extra_binary_rules", extra)

\* the innermost with-block is left
Exit(how) ==
    /\ rules' = Restored(scopes[Len(scopes)], how, Tables(rules, brules)).rules
    /\ brules' = Restored(scopes[Len(scopes)], how, Tables(rules, brules)).brules
    /\ scopes' = SubSeq(scopes, 1, Len(scopes) - 1)
    /\ ran' = Append(ran, how)
    /\ UNCHANGED <<cls, args, kwargs, pc, result, built, prev, orig, methodVars>>

ExitNormally ==
    /\ scopes # << >>
    /\ Exit("normal")

\* an exception raised in the block leaves it
ExitByException ==
    /\ scopes # << >>
    /\ Exit("exception")

\* cls.create(*ops) with the tables as they are now
CreateInScope ==
    /\ result' = create(cls, rules, brules, ScopedOperands(cls), NoKwargs)
    /\ UNCHANGED <<cls, rules, brules, args, kwargs, pc, ran, built, prev, orig,
                   methodVars, scopes>>

ScopeNext ==
    \/ EnterNoRules
    \/ EnterExtraRules
    \/ EnterExtraBinaryRules
    \/ ExitNormally
    \/ ExitByException
    \/ CreateInScope

ScopeSpec == ScopeInit /\ [][ScopeNext]_vars

(***************************************************************************)
(* Indexed sums.  The term of a sum mentions each of its index symbols     *)
(* (in the label of a symbol), so that the passes of                       *)
(* OperatorIndexedSum.create that remove a constant term or a Kronecker    *)
(* delta leave the operands alone.                                         *)
(***************************************************************************)
IdxSym(name, primed) == [t |-> "IdxSym", name |-> name, primed |-> primed]
IndexOverFockSpace(idx, hs) ==
    [t |-> "IndexOverFockSpace", index_symbol |-> idx, hs |-> hs]
IndexOverList(idx, values) ==
    [t |-> "IndexOverList", index_symbol |-> idx, values |-> values]
IndexOverRange(idx, start_from, to, step) ==
    [t |-> "IndexOverRange", index_symbol |-> idx, start_from |-> start_from,
     to |-> to, step |-> step]
\* OperatorSymbol(StrLabel(idx), hs=hs): a symbol labelled by an index
IndexedSymbol(label, idx, hs) ==
    [t |-> "OperatorSymbol", label |-> label, hs |-> hs, idx |-> idx]
\* the instance OperatorIndexedSum(term, *ranges)
OperatorIndexedSum(term, ranges) ==
    [t |-> "OperatorIndexedSum", term |-> term, ranges |-> ranges]

IsIndexedSum(x) == x.t = "OperatorIndexedSum"
\* is_scalar(x): a number, or the scalar symbol with a power
is_scalar(x) == x.t = "Scalar"

\* x.bound_symbols
bound_symbols(x) ==
    IF IsIndexedSum(x)
    THEN {x.ranges[i].index_symbol : i \in 1..Len(x.ranges)}
    ELSE {}

\* index_symbol.incr_primed() until the symbol is none of the given ones
RECURSIVE incr_primed(_, _)
incr_primed(idx, symbols) ==
    IF idx \in symbols
    THEN incr_primed([idx EXCEPT !.primed = idx.primed + 1], symbols)
    ELSE idx

\* x._substitute({old: new}, safe=True)
RECURSIVE substitute(_, _, _)
substitute(x, old, new) ==
    CASE x.t = "OperatorSymbol" ->
            IF "idx" \in DOMAIN x /\ x.idx = old THEN [x EXCEPT !.idx = new] ELSE x
      [] x.t \in {"Adjoint", "OperatorPlusMinusCC"} ->
            [x EXCEPT !.operand = substitute(x.operand, old, new)]
      [] x.t = "ScalarTimesOperator" ->
            [x EXCEPT !.term = substitute(x.term, old, new)]
      [] x.t \in {"OperatorPlus", "OperatorTimes"} ->
            [x EXCEPT !.args = [i \in 1..Len(x.args) |->
                                  substitute(x.args[i], old, new)]]
      [] OTHER -> x

\* the loop of make_disjunct_indices from the i-th range on
RECURSIVE make_disjunct_from(_, _, _)
make_disjunct_from(s, i, symbols) ==
    IF i > Len(s.ranges) THEN s
    ELSE make_disjunct_from(
             OperatorIndexedSum(
                 substitute(s.term, s.ranges[i].index_symbol,
                            incr_primed(s.ranges[i].index_symbol, symbols)),
                 [s.ranges EXCEPT ![i].index_symbol =
                      incr_primed(s.ranges[i].index_symbol, symbols)]),
             i + 1, symbols)

\* s.make_disjunct_indices(*others), symbols being the index symbols that
\* the others bind: every index of s among them is primed until it is not
make_disjunct_indices(s, symbols) == make_disjunct_from(s, 1, symbols)

\* assoc_indexed(cls, (term, *ranges), kwargs): a nested sum is flattened
\* and the coefficient of a scalar multiple of a nested sum pulled out
\* (no coefficient of the model mentions an index symbol; coeff * sum is
\* sum.__rmul__(coeff), the ScalarTimesOperator of the sum)
assoc_indexed(term, ranges) ==
    IF IsIndexedSum(term)
    THEN Final(OperatorIndexedSum(
                   make_disjunct_indices(
                       term, bound_symbols(OperatorIndexedSum(term, ranges))).term,
                   ranges \o make_disjunct_indices(
                       term, bound_symbols(OperatorIndexedSum(term, ranges))).ranges))
    ELSE IF term.t = "ScalarTimesOperator" /\ IsIndexedSum(term.term)
    THEN Final([term EXCEPT !.term =
                   OperatorIndexedSum(
                       make_disjunct_indices(
                           term.term,
                           bound_symbols(OperatorIndexedSum(term, ranges))).term,
                       ranges \o make_disjunct_indices(
                           term.term,
                           bound_symbols(OperatorIndexedSum(term, ranges))).ranges)])
    ELSE Pair(<<term>> \o ranges, NoKwargs)

\* OperatorIndexedSum.create(term, *ranges): assoc_indexed, then the
\* constructor on the operands the other passes leave alone
OperatorIndexedSum_create(term, ranges) ==
    IF Raised(term) THEN term
    ELSE IF assoc_indexed(term, ranges).pair
    THEN OperatorIndexedSum(term, ranges)
    ELSE assoc_indexed(term, ranges).val

\* QuantumIndexedSum.__mul__(self, other): the branches for a scalar and for
\* a scalar multiple read the attribute self._class__, which no object has
QuantumIndexedSum__mul__(s, o) ==
    IF IsIndexedSum(o)
    THEN OperatorIndexedSum_create(
             mul(s.term, make_disjunct_indices(o, bound_symbols(s)).term),
             s.ranges \o make_disjunct_indices(o, bound_symbols(s)).ranges)
    ELSE IF is_scalar(o) THEN AttributeError
    ELSE IF o.t = "ScalarTimesOperator" THEN AttributeError
    ELSE OperatorIndexedSum_create(
             mul(make_disjunct_indices(s, bound_symbols(o)).term, o),
             make_disjunct_indices(s, bound_symbols(o)).ranges)

\* QuantumIndexedSum.__rmul__(self, other): the scalar multiple is made by
\* the constructor, whatever the coefficient
QuantumIndexedSum__rmul__(s, o) ==
    IF IsIndexedSum(o)
    THEN OperatorIndexedSum_create(
             mul(o.term, make_disjunct_indices(s, bound_symbols(o)).term),
             o.ranges \o make_disjunct_indices(s, bound_symbols(o)).ranges)
    ELSE IF is_scalar(o)
    THEN IF o.p = 0 THEN ScalarTimesOperatorNode(o.c, s)
         ELSE SymbolicTimesOperatorNode(o.c, o.p, s)
    ELSE IF o.t = "ScalarTimesOperator" THEN AttributeError
    ELSE OperatorIndexedSum_create(
             mul(o, make_disjunct_indices(s, bound_symbols(o)).term),
             make_disjunct_indices(s, bound_symbols(o)).ranges)

\* QuantumIndexedSum.__add__, __radd__, __sub__ and __rsub__
QuantumIndexedSum__add__(s, o) == NotImplementedError

\* a * b as Python evaluates it: a.__mul__(b), and b.__rmul__(a) when a is
\* a number, whose __mul__ returns NotImplemented
Times(a, b) ==
    IF IsIndexedSum(a) THEN QuantumIndexedSum__mul__(a, b)
    ELSE IF is_scalar(a) /\ IsIndexedSum(b) THEN QuantumIndexedSum__rmul__(b, a)
    ELSE mul(a, b)

\* a + b as Python evaluates it: the __add__ of an operator that is no
\* indexed sum makes OperatorPlus.create(a, b) of every operator b
Plus(a, b) ==
    IF Raised(a) THEN a
    ELSE IF Raised(b) THEN b
    ELSE IF IsIndexedSum(a) THEN QuantumIndexedSum__add__(a, b)
    ELSE IF is_scalar(a) /\ IsIndexedSum(b) THEN QuantumIndexedSum__add__(b, a)
    ELSE add(a, b)

\* (-1) * b, the product of two numbers being a number
Negated(b) ==
    IF is_scalar(b) THEN Scalar(0 - b.c, b.p) ELSE Times(Scalar(0 - 1, 0), b)

\* a - b as Python evaluates it: a.__sub__(b) is a + (-1) * b and
\* b.__rsub__(a) is (-1) * b + a
Minus(a, b) ==
    IF IsIndexedSum(a) THEN QuantumIndexedSum__add__(a, b)
    ELSE IF is_scalar(a)
    THEN IF IsIndexedSum(b) THEN QuantumIndexedSum__add__(b, a)
         ELSE Plus(Negated(b), a)
    ELSE Plus(a, Negated(b))

(***************************************************************************)
(* Sum(idx, *args): the builder of indexed sums                            *)
(***************************************************************************)
\* the values given as range arguments, each with its type
LocalSpaceValue(label) == [t |-> "LocalSpace", label |-> label]
ListValue(items) == [t |-> "list", items |-> items]
BoolValue(b) == [t |-> "bool", v |-> b]

\* key = tuple(type(arg) for arg in args)
TypesOf(a) == [i \in 1..Len(a) |-> a[i].t]

\* dispatch_table[key], or KeyError
dispatch_table(key) ==
    CASE key = << >> -> "_sum_over_fockspace"
      [] key = <<"LocalSpace">> -> "_sum_over_fockspace"
      [] key = <<"list">> -> "_sum_over_list"
      [] key = <<"tuple">> -> "_sum_over_list"
      [] key = <<"int">> -> "_sum_over_range"
      [] key = <<"int", "int">> -> "_sum_over_range"
      [] key = <<"int", "int", "int">> -> "_sum_over_range"
      [] OTHER -> "KeyError"

\* _sum_over_list(term, idx, values)
_sum_over_list(term, idx, a) == IndexOverList(idx, a[1].items)

\* _sum_over_range(term, idx, start_from, to, step=1): a call without the
\* argument `to`, which has no default, raises TypeError
_sum_over_range(term, idx, a) ==
    IF Len(a) < 2 THEN TypeError
    ELSE IndexOverRange(idx, a[1].v, a[2].v, IF Len(a) = 3 THEN a[3].v ELSE 1)

\* _sum_over_fockspace(term, idx, hs=None)
_sum_over_fockspace(term, idx, a) ==
    IF a = << >> THEN IndexOverFockSpace(idx, space(term))
    ELSE IndexOverFockSpace(idx, LocalSpace(a[1].label))

\* idx_range_func(term, idx, *args)
idx_range_func(func, term, idx, a) ==
    CASE func = "_sum_over_fockspace" -> _sum_over_fockspace(term, idx, a)
      [] func = "_sum_over_list" -> _sum_over_list(term, idx, a)
      [] func = "_sum_over_range" -> _sum_over_range(term, idx, a)

\* the function Sum(idx, *args) returns, applied to term
Sum_sum(func, idx, a, term) ==
    IF Raised(idx_range_func(func, term, idx, a))
    THEN idx_range_func(func, term, idx, a)
    ELSE OperatorIndexedSum_create(term, <<idx_range_func(func, term, idx, a)>>)

(***************************************************************************)
(* The state machine of the arithmetic of indexed sums: one of self +      *)
(* other, self - other and self * other is evaluated, or Sum(idx, *args)   *)
(* is called and the function it returns applied to self.                  *)
(*   frame   the call of Sum: its arguments, the range function chosen     *)
(*           and whether the call returned, raised or its result was       *)
(*           applied; None without such a call                             *)
(***************************************************************************)
MaxRangeArgs == 3

IdxI == IdxSym("i", 0)
\* terms that mention the index i
IndexedTerms ==
    {IndexedSymbol(7, IdxSym("i", 0), LocalSpace(1)),
     IndexedSymbol(8, IdxSym("i", 0), LocalSpace(2)),
     Adjoint(IndexedSymbol(7, IdxSym("i", 0), LocalSpace(1)))}
IndexedSums ==
    {OperatorIndexedSum(IndexedSymbol(7, IdxSym("i", 0), LocalSpace(1)),
                        <<IndexOverFockSpace(IdxSym("i", 0), LocalSpace(1))>>),
     OperatorIndexedSum(IndexedSymbol(8, IdxSym("i", 0), LocalSpace(2)),
                        <<IndexOverRange(IdxSym("i", 0), 0, 2, 1)>>),
     OperatorIndexedSum(
         Node("OperatorTimes", <<IndexedSymbol(7, IdxSym("i", 0), LocalSpace(1)),
                                 IndexedSymbol(8, IdxSym("j", 0), LocalSpace(2))>>,
              NoKwargs),
         <<IndexOverFockSpace(IdxSym("i", 0), LocalSpace(1)),
           IndexOverList(IdxSym("j", 0), <<0, 1>>)>>)}
\* the operators without an index, and the numbers
NonIndexed ==
    {SymA, SymC, ZeroOperator, IdentityOperator, ScalarTimesOperatorNode(2, SymA), SumAB}
Numbers == {Scalar(0, 0), Scalar(1, 0), Scalar(2, 0), Scalar(1, 1)}
RangeValues ==
    {IntVal(1), LocalSpaceValue(1), ListValue(<<0, 1>>), Tuple(<<0, 1>>), BoolValue(TRUE)}

IndexedInit ==
    /\ NoCreateCall
    /\ scopes = << >>
    /\ self \in IndexedTerms \cup IndexedSums \cup NonIndexed \cup Numbers
    /\ other \in IndexedSums \cup NonIndexed \cup Numbers
    /\ IsOperator(self) \/ IsOperator(other)
    /\ calls = << >>
    /\ value = self
    /\ frame = None

\* self + other
PlusOp ==
    /\ calls = << >>
    /\ Call("+", Plus(self, other))

\* self - other
MinusOp ==
    /\ calls = << >>
    /\ Call("-", Minus(self, other))

\* self * other
TimesOp ==
    /\ calls = << >>
    /\ Call("*", Times(self, other))

\* Sum(idx, *a): the range function is looked up, TypeError without one
SumCall ==
    /\ calls = << >>
    /\ frame = None
    /\ self \in IndexedTerms
    /\ \E a \in SeqsUpTo(RangeValues, MaxRangeArgs) :
          /\ frame' = [method |-> "Sum", idx |-> IdxI, args |-> a,
                       func |-> dispatch_table(TypesOf(a)),
                       pc |-> IF dispatch_table(TypesOf(a)) = "KeyError"
                              THEN "raised" ELSE "returned"]
          /\ value' = IF dispatch_table(TypesOf(a)) = "KeyError" THEN TypeError ELSE value
    /\ calls' = <<"Sum">>
    /\ UNCHANGED <<self, other, createVars, scopes>>

\* Sum(idx, *a)(self)
SumApply ==
    /\ frame # None
    /\ frame.method = "Sum"
    /\ frame.pc = "returned"
    /\ value' = Sum_sum(frame.func, frame.idx, frame.args, self)
    /\ frame' = [frame EXCEPT !.pc = "applied"]
    /\ calls' = Append(calls, "sum")
    /\ UNCHANGED <<self, other, createVars, scopes>>

IndexedNext ==
    \/ PlusOp
    \/ MinusOp
    \/ TimesOp
    \/ SumCall
    \/ SumApply

IndexedSpec == IndexedInit /\ [][IndexedNext]_vars

(***************************************************************************)
(* The state machine of the construction of states: KetPlus.create and     *)
(* TensorKet.create on the operands args, pass by pass (a + b and a * b of *)
(* two kets                                                                *)
(* are KetPlus.create(a, b) and TensorKet.create(a, b)), the constructor   *)
(* called directly, check_kets_same_space called on the operands as they   *)
(* are, and a scalar multiple made of the state that was built.            *)
(*   calls   how the operands were given: by a.__add__(b), a.__mul__(b),   *)
(*           or to check_kets_same_space itself; empty for create          *)
(*   value   what check_kets_same_space returned, or the scalar multiple   *)
(***************************************************************************)
MaxKetOps == 3

KetClasses == {"KetPlus", "TensorKet"}
KetA == KetSymbol(1, LocalSpace(1))
KetB == KetSymbol(2, LocalSpace(1))
KetC == KetSymbol(3, LocalSpace(2))
\* the operands: kets, Bras, the sum of two kets and an operator
States ==
    {KetSymbol(1, LocalSpace(1)), KetSymbol(2, LocalSpace(1)), KetSymbol(3, LocalSpace(2)),
     ZeroKet, TrivialKet, Bra(KetSymbol(1, LocalSpace(1))), Bra(KetSymbol(3, LocalSpace(2))),
     [t |-> "KetPlus",
      args |-> <<KetSymbol(1, LocalSpace(1)), KetSymbol(2, LocalSpace(1))>>,
      kwargs |-> NoKwargs, stored_space |-> LocalSpace(1)],
     OperatorSymbol(1, LocalSpace(1))}

\* ScalarTimesKet(coeff, term)
ScalarTimesKet(coeff, term) == [t |-> "ScalarTimesKet", coeff |-> coeff, term |-> term]

KetInit ==
    /\ cls \in KetClasses
    /\ rules = << >>
    /\ brules = << >>
    /\ args \in SeqsUpTo(States, MaxKetOps)
    /\ kwargs = NoKwargs
    /\ pc = 1
    /\ result = None
    /\ ran = << >>
    /\ built = FALSE
    /\ prev = None
    /\ orig = Pair(args, kwargs)
    /\ \/ /\ self = None
          /\ other = None
          /\ calls = << >>
       \/ /\ Len(args) = 2
          /\ IsKet(args[1])
          /\ IsKet(args[2])
          /\ self = args[1]
          /\ other = args[2]
          /\ calls = <<IF cls = "KetPlus" THEN "__add__" ELSE "__mul__">>
    /\ value = None
    /\ frame = None
    /\ scopes = << >>

AcceptBras ==
    /\ Due("accept_bras")
    /\ Step("accept_bras", accept_bras(cls, args, kwargs))

CheckKetsSameSpace ==
    /\ Due("check_kets_same_space")
    /\ Step("check_kets_same_space", check_kets_same_space(cls, args, kwargs))

\* cls(*args): the constructor called without create
ConstructDirectly ==
    /\ pc = 1
    /\ ran = << >>
    /\ calls = << >>
    /\ result' = Constructor(cls, args, kwargs)
    /\ built' = TRUE
    /\ pc' = 0
    /\ ran' = <<"__init__">>
    /\ UNCHANGED <<cls, rules, brules, args, kwargs, prev, orig, methodVars, scopes>>

\* check_kets_same_space(cls, args, kwargs) called on the operands
CallCheckKetsSameSpace ==
    /\ pc = 1
    /\ ran = << >>
    /\ calls = << >>
    /\ value' = check_kets_same_space(cls, args, kwargs)
    /\ calls' = <<"check_kets_same_space">>
    /\ pc' = 0
    /\ UNCHANGED <<self, other, frame, cls, rules, brules, args, kwargs, result, ran,
                   built, prev, orig, scopes>>

\* 5 * result for the state that was built
ScalarMultiple ==
    /\ pc = 0
    /\ built
    /\ value = None
    /\ IsKet(result)
    /\ value' = ScalarTimesKet(5, result)
    /\ UNCHANGED <<self, other, calls, frame, createVars, scopes>>

KetNext ==
    \/ AcceptBras
    \/ Assoc
    \/ Orderby
    \/ FilterNeutral
    \/ CheckKetsSameSpace
    \/ MatchReplaceBinary
    \/ Construct
    \/ ConstructDirectly
    \/ CallCheckKetsSameSpace
    \/ ScalarMultiple

KetSpec == KetInit /\ [][KetNext]_vars

(***************************************************************************)
(* The state machine of match_replace under the logging flags: the pass is *)
(* called once on the operands with the rules of the class.                *)
(*   frame   the values of the flags LOG and LOG_NO_MATCH                  *)
(*   value   what the pass returned                                        *)
(***************************************************************************)
LoggingInit ==
    /\ cls \in {"Invert", "X"}
    /\ rules \in UnaryTables(cls)
    /\ brules = << >>
    /\ args \in OperandLists(cls)
    /\ kwargs \in KwargsPool(cls)
    /\ pc = 1
    /\ result = None
    /\ ran = << >>
    /\ built = FALSE
    /\ prev = None
    /\ orig = Pair(args, kwargs)
    /\ self = None
    /\ other = None
    /\ calls = << >>
    /\ value = None
    /\ frame \in [LOG : BOOLEAN, LOG_NO_MATCH : BOOLEAN]
    /\ scopes = << >>

\* match_replace(cls, args, kwargs) with the flags of frame
MatchReplaceLogging ==
    /\ pc = 1
    /\ value' = match_replace_logging_from(rules, 1, args, kwargs, frame.LOG,
                                           frame.LOG_NO_MATCH)
    /\ calls' = <<"match_replace">>
    /\ pc' = 0
    /\ UNCHANGED <<self, other, frame, cls, rules, brules, args, kwargs, result, ran,
                   built, prev, orig, scopes>>

LoggingNext == MatchReplaceLogging

LoggingSpec == LoggingInit /\ [][LoggingNext]_vars

(***************************************************************************)
(* The state machine of the binary reducer: _match_replace_binary on the   *)
(* operands args of FilterDupes with the binary rules brules, call by      *)
(* call.                                                                   *)
(*   frame   the call being evaluated: _match_replace_binary(ops),         *)
(*           _match_replace_binary_combine(a, b), or the value a call      *)
(*           returned                                                      *)
(*   scopes  the stack of the calls waiting for it: the right half still   *)
(*           to reduce, the reduced left half, the rest b[1:] to combine   *)
(*           with, or a call that returns what its callee returns          *)
(***************************************************************************)
MaxReducerOps == 4
MaxPairs == 3
MaxDepth == 12

Reduce(ops) == [op |-> "reduce", ops |-> ops]
Combine(a, b) == [op |-> "combine", a |-> a, b |-> b]
Returned(val) == [op |-> "return", val |-> val]

\* a variant that inserts the replacement twice
AsList_twice(c, r) == <<r, r>>

\* r = list(r.args) for an instance of the class, r = [r, ] otherwise
AsList(c, r) == IF IsInstance(r, c) THEN r.args ELSE <<r>>

\* a variant that returns the lists without the pair as they are
AfterNeutral_returned(a, b) == Returned(SubSeq(a, 1, Len(a) - 1) \o Tail(b))

\* the replacement is the neutral element: combine a[:-1] and b[1:]
AfterNeutral(a, b) == Combine(SubSeq(a, 1, Len(a) - 1), Tail(b))

\* x1..xk yk..y1 for the pairs (i, -i)
NestedPairs(k) ==
    [i \in 1..(2 * k) |-> IF i <= k THEN IntVal(i) ELSE IntVal(0 - (2 * k + 1 - i))]

ReducerTables ==
    {<<"cancel">>, <<"filter_dupes">>, <<"cancel", "filter_dupes">>, <<"swap">>,
     <<"cancel", "swap">>}

ReducerInit ==
    /\ cls = "FilterDupes"
    /\ rules = << >>
    /\ brules \in ReducerTables
    /\ args \in SeqsUpTo({IntVal(1), IntVal(2), IntVal(0 - 1), IntVal(0 - 2)}, MaxReducerOps)
                   \cup {NestedPairs(k) : k \in 1..MaxPairs}
    /\ kwargs = NoKwargs
    /\ pc = 1
    /\ result = None
    /\ ran = << >>
    /\ built = FALSE
    /\ prev = None
    /\ orig = Pair(args, kwargs)
    /\ self = None
    /\ other = None
    /\ calls = << >>
    /\ value = None
    /\ frame = Reduce(args)
    /\ scopes = << >>

\* _match_replace_binary(cls, ops): a list of at most one operand is returned
\* as it is; otherwise the left half is reduced first, the right half waits
ReduceCall ==
    /\ pc = 1
    /\ frame.op = "reduce"
    /\ LET n == Len(frame.ops)
       IN IF n <= 1
          THEN /\ frame' = Returned(frame.ops)
               /\ scopes' = scopes
          ELSE /\ Len(scopes) < MaxDepth
               /\ scopes' = Append(scopes, [k |-> "right",
                                            ops |-> SubSeq(frame.ops, (n \div 2) + 1, n)])
               /\ frame' = Reduce(SubSeq(frame.ops, 1, n \div 2))
    /\ UNCHANGED <<createVars, self, other, calls, value>>

\* _match_replace_binary_combine(cls, a, b)
CombineCall ==
    /\ pc = 1
    /\ frame.op = "combine"
    /\ LET a == frame.a
           b == frame.b
           r == IF Len(a) = 0 \/ Len(b) = 0 THEN None
                ELSE _get_binary_replacement(a[Len(a)], b[1], brules)
       IN IF r = None
          THEN /\ frame' = Returned(a \o b)
               /\ scopes' = scopes
          ELSE /\ Len(scopes) < MaxDepth
               /\ IF r = neutral_element(cls)
                  THEN /\ frame' = AfterNeutral(a, b)
                       /\ scopes' = Append(scopes, [k |-> "return"])
                  ELSE /\ frame' = Combine(SubSeq(a, 1, Len(a) - 1), AsList(cls, r))
                       /\ scopes' = Append(scopes, [k |-> "tail", b |-> Tail(b)])
    /\ UNCHANGED <<createVars, self, other, calls, value>>

\* a call returns: the call waiting for it goes on, and the outermost call
\* hands the reduced operands to match_replace_binary
ReturnCall ==
    /\ pc = 1
    /\ frame.op = "return"
    /\ LET d == Len(scopes)
       IN IF d = 0
          THEN /\ result' = ReducedTo(cls, frame.val, kwargs)
               /\ pc' = 0
               /\ UNCHANGED <<frame, scopes>>
          ELSE /\ UNCHANGED <<result, pc>>
               /\ CASE scopes[d].k = "right" ->
                         /\ frame' = Reduce(scopes[d].ops)
                         /\ scopes' = [scopes EXCEPT ![d] = [k |-> "left", val |-> frame.val]]
                    [] scopes[d].k = "left" ->
                         /\ frame' = Combine(scopes[d].val, frame.val)
                         /\ scopes' = [scopes EXCEPT ![d] = [k |-> "return"]]
                    [] scopes[d].k = "tail" ->
                         /\ frame' = Combine(frame.val, scopes[d].b)
                         /\ scopes' = [scopes EXCEPT ![d] = [k |-> "return"]]
                    [] scopes[d].k = "return" ->
                         /\ frame' = frame
                         /\ scopes' = SubSeq(scopes, 1, d - 1)
    /\ UNCHANGED <<cls, rules, brules, args, kwargs, ran, built, prev, orig,
                   self, other, calls, value>>

ReducerNext == ReduceCall \/ CombineCall \/ ReturnCall

ReducerSpec == ReducerInit /\ [][ReducerNext]_vars

\* the calls of the reducer follow each other without a scheduler: a call
\* that can be made is made
ReducerLiveSpec == ReducerSpec /\ WF_vars(ReducerNext)

(***************************************************************************)
(* The commutator: Commutator.create(A, B) runs scalars_to_op,             *)
(* disjunct_hs_zero, commutator_order and match_replace, and               *)
(* commutator_order calls Commutator.create on the swapped operands.       *)
(* scopes holds the calls of commutator_order that wait for the create     *)
(* they made, each to return -1 times its result.                          *)
(***************************************************************************)
\* deepest nesting of Commutator.create calls through commutator_order
MaxSwaps == 3

disjunct_hs_zero(c, ops, kw) ==
    IF \E i, j \in 1..Len(ops) : i < j /\ ~isdisjoint(space(ops[i]), space(ops[j]))
    THEN Pair(ops, kw)
    ELSE Final(ZeroOperator)

\* a variant that swaps the operands that are in order
commutator_order_swaps_ordered(c, ops) == order_key_lt(c, ops[1], ops[2])

\* cls.order_key(ops[1]) < cls.order_key(ops[0])
commutator_order_swaps(c, ops) == order_key_lt(c, ops[2], ops[1])

\* Commutator.create(A, B), with the empty rule table of Commutator._rules
RECURSIVE Commutator_create(_, _)
Commutator_create(A, B) ==
    LET ops == scalars_to_op("Commutator", <<A, B>>, NoKwargs).ops
    IN IF ~disjunct_hs_zero("Commutator", ops, NoKwargs).pair THEN ZeroOperator
       ELSE IF commutator_order_swaps("Commutator", ops)
       THEN Negated(Commutator_create(ops[2], ops[1]))
       ELSE Constructor("Commutator", ops, NoKwargs)

CommutatorOperands ==
    {SymA, SymB, SymC, SymY, ScalarTimesOperatorNode(2, SymA),
     ScalarTimesOperatorNode(0 - 1, SymB), Adjoint(SymA), IdentityOperator, ZeroOperator,
     IntVal(2)}

CommutatorInit ==
    /\ cls = "Commutator"
    /\ rules = << >>
    /\ brules = << >>
    /\ args \in [1..2 -> CommutatorOperands]
    /\ kwargs = NoKwargs
    /\ pc = 1
    /\ result = None
    /\ ran = << >>
    /\ built = FALSE
    /\ prev = None
    /\ orig = Pair(args, kwargs)
    /\ self = None
    /\ other = None
    /\ calls = << >>
    /\ value = None
    /\ frame = None
    /\ scopes = << >>

DisjunctHsZero ==
    /\ Due("disjunct_hs_zero")
    /\ Step("disjunct_hs_zero", disjunct_hs_zero(cls, args, kwargs))

\* commutator_order(cls, ops, kwargs): operands in order go on to the next
\* pass; otherwise Commutator.create is called on the swapped operands and
\* this call waits for its result
CommutatorOrder ==
    /\ Due("commutator_order")
    /\ IF Len(args) # 2
       THEN Step("commutator_order", Final(AssertionError))
       ELSE IF commutator_order_swaps(cls, args)
       THEN /\ Len(scopes) < MaxSwaps
            /\ scopes' = Append(scopes, Pair(args, kwargs))
            /\ args' = <<args[2], args[1]>>
            /\ pc' = 1
            /\ ran' = Append(ran, "commutator_order")
            /\ UNCHANGED <<cls, rules, brules, kwargs, result, built, prev, orig,
                           methodVars>>
       ELSE Step("commutator_order", Pair(args, kwargs))

\* the create that commutator_order called returned: the pass returns -1
\* times its result, which ends the create that ran the pass
ReturnNegated ==
    /\ pc = 0
    /\ scopes # << >>
    /\ result' = Negated(result)
    /\ scopes' = SubSeq(scopes, 1, Len(scopes) - 1)
    /\ UNCHANGED <<cls, rules, brules, args, kwargs, pc, ran, built, prev, orig,
                   methodVars>>

CommutatorNext ==
    \/ ScalarsToOp
    \/ DisjunctHsZero
    \/ CommutatorOrder
    \/ MatchReplace
    \/ Construct
    \/ ReturnNegated

CommutatorSpec == CommutatorInit /\ [][CommutatorNext]_vars

(***************************************************************************)
(* What the rules of a table do to an operand list                         *)
(***************************************************************************)
\* the pattern of the rule matches and its replacement returns a value
Applies(rule, ops) ==
    LET m == match_pattern(rule, ops) IN m.ok /\ ~replacement(rule, m).raised

\* the pattern of the rule matches and its replacement raises CannotSimplify
Declines(rule, ops) ==
    LET m == match_pattern(rule, ops) IN m.ok /\ replacement(rule, m).raised

\* the value the replacement of an applying rule returns
ReplacementOf(rule, ops) == replacement(rule, match_pattern(rule, ops)).val

\* the table without the rules that decline ops
WithoutDeclining(table, ops) == SelectSeq(table, LAMBDA rule : ~Declines(rule, ops))

\* the first rule of the table whose pattern matches ops (0: none)
FirstMatching(table, ops) ==
    LET S == {i \in 1..Len(table) : match_pattern(table[i], ops).ok}
    IN IF S = {} THEN 0 ELSE CHOOSE i \in S : \A j \in S : i <= j

\* the last pass that ran in the current call ("": none yet)
LastPass == IF ran = << >> THEN "" ELSE ran[Len(ran)]

(***************************************************************************)
(* Pairwise rewriting to a fixpoint: the leftmost adjacent pair that the   *)
(* binary rules rewrite is replaced (dropped for the neutral element,      *)
(* spliced for an instance of the operation) until no pair is rewritten.   *)
(***************************************************************************)
FirstRewritable(table, ops) ==
    LET S == {i \in 1..(Len(ops) - 1) :
                 _get_binary_replacement(ops[i], ops[i + 1], table) # None}
    IN IF S = {} THEN 0 ELSE CHOOSE i \in S : \A j \in S : i <= j

RECURSIVE PairwiseFixpoint(_, _, _)
PairwiseFixpoint(c, table, ops) ==
    LET i == FirstRewritable(table, ops)
    IN IF i = 0 THEN ops
       ELSE LET r == _get_binary_replacement(ops[i], ops[i + 1], table)
                rl == IF r = neutral_element(c) THEN << >>
                      ELSE IF IsInstance(r, c) THEN r.args ELSE <<r>>
            IN PairwiseFixpoint(
                   c, table, SubSeq(ops, 1, i - 1) \o rl \o SubSeq(ops, i + 2, Len(ops)))

\* no adjacent pair of ops is rewritten by the binary rules
FullyReduced(table, ops) == FirstRewritable(table, ops) = 0

(***************************************************************************)
(* Properties                                                              *)
(***************************************************************************)
\* C1: on every operand list that reaches match_replace_binary, the
\* divide-and-conquer reducer returns the list that pairwise rewriting of
\* adjacent operands to a fixpoint returns.
C1_ReducerIsPairwiseFixpoint ==
    Due("match_replace_binary") =>
        _match_replace_binary(cls, brules, args) = PairwiseFixpoint(cls, brules, args)

\* C2: match_replace returns the replacement of the first rule, in insertion
\* order, whose pattern matches and whose replacement does not raise; with
\* r1 before r2, Invert(Invert(x)) gives x and Invert(0.2) gives 5.0.
C2_FirstApplicableRule ==
    (cls = "Invert" /\ ran = <<"match_replace">>) =>
        /\ \A i \in 1..Len(rules) :
              (Applies(rules[i], args) /\ \A j \in 1..(i - 1) : ~Applies(rules[j], args))
                 => (pc = 0 /\ ~built /\ result = ReplacementOf(rules[i], args))
        /\ (rules = <<"r1", "r2">> /\ args = <<Node("Invert", <<Str("x")>>, NoKwargs)>>)
              => result = Str("x")
        /\ (rules = <<"r1", "r2">> /\ args = <<Float(1, 5)>>)
              => result = Float(5, 1)

\* two rules with different replacements apply and the earlier one was taken
C2_Witness ==
    /\ cls = "Invert" /\ ran = <<"match_replace">> /\ pc = 0 /\ ~built
    /\ \E i, j \in 1..Len(rules) :
          /\ i < j
          /\ Applies(rules[i], args) /\ Applies(rules[j], args)
          /\ ReplacementOf(rules[i], args) # ReplacementOf(rules[j], args)
          /\ result = ReplacementOf(rules[i], args)

\* C3: a rule whose pattern matches and whose replacement raises
\* CannotSimplify counts as a rule that did not match: match_replace, and
\* the lookup of a binary rule for a pair of operands, give what the table
\* without such rules gives.
C3_DecliningRuleIsSkipped ==
    /\ (cls = "Invert" /\ ran = <<"match_replace">>) =>
          LET table == WithoutDeclining(rules, args)
              i == FirstMatching(table, args)
          IN IF i = 0 THEN pc # 0 \/ built
             ELSE pc = 0 /\ ~built /\ result = ReplacementOf(table[i], args)
    /\ (/\ cls = "OperatorPlus" /\ LastPass = "match_replace_binary"
        /\ pc = 0 /\ ~built /\ Len(args) = 2) =>
          LET table == WithoutDeclining(brules, args)
              i == FirstMatching(table, args)
          IN i # 0 /\ result = ReplacementOf(table[i], args)

\* a rule declined and a later rule gave the result
C3_Witness ==
    /\ cls = "Invert" /\ ran = <<"match_replace">> /\ pc = 0 /\ ~built
    /\ \E i, j \in 1..Len(rules) :
          /\ i < j
          /\ Declines(rules[i], args) /\ Applies(rules[j], args)
          /\ result = ReplacementOf(rules[j], args)

\* C4: when no rule of the table applies to the operands, match_replace
\* hands on the operands and the keyword arguments it was given, so that
\* the node is built from them: Invert('hallo') stays Invert('hallo').
C4_NoRuleApplies ==
    /\ (/\ cls = "Invert" /\ prev = None /\ ran = <<"match_replace">>
        /\ \A i \in 1..Len(rules) : ~Applies(rules[i], orig.ops)) =>
          /\ args = orig.ops
          /\ kwargs = orig.kwargs
          /\ pc \in {0, 2}
          /\ pc = 0 => (built /\ result = Node("Invert", orig.ops, orig.kwargs))
    /\ (/\ cls = "Invert" /\ prev = None /\ pc = 0
        /\ rules = <<"r1", "r2">> /\ orig.ops = <<Str("hallo")>>) =>
          result = Node("Invert", <<Str("hallo")>>, orig.kwargs)

\* every rule that matches declines, and the node is built with its kwargs
C4_Witness ==
    /\ cls = "Invert" /\ prev = None /\ pc = 0 /\ built
    /\ \E i \in 1..Len(rules) : Declines(rules[i], orig.ops)
    /\ \A i \in 1..Len(rules) : ~Applies(rules[i], orig.ops)
    /\ orig.kwargs # NoKwargs
    /\ result = Node("Invert", orig.ops, orig.kwargs)

\* C5: the passes of a class run in the declared order; a pass that returns
\* a finished value ends create with that value, without a later pass and
\* without the constructor; the constructor runs only after all passes.
C5_PassesInOrderAndShortCircuit ==
    /\ Len(ran) <= Len(Simplifications(cls))
    /\ ran = SubSeq(Simplifications(cls), 1, Len(ran))
    /\ pc # 0 => (Len(ran) = pc - 1 /\ ~built /\ result = None)
    /\ built => (pc = 0 /\ ran = Simplifications(cls))
    /\ (pc = 0 /\ prev = None /\ cls = "OperatorPlus" /\ orig.ops = <<SymA, ZeroOperator>>) =>
          (/\ result = SymA /\ ~built
           /\ ran = <<"assoc", "scalars_to_op", "orderby", "filter_neutral">>)
    /\ (pc = 0 /\ prev = None /\ cls = "FilterDupes" /\ orig.ops = <<IntVal(0), IntVal(0)>>) =>
          (result = IntVal(0) /\ ~built /\ ran = <<"match_replace_binary">>)

\* filter_neutral returned the one remaining operand before the last pass
C5_Witness ==
    /\ pc = 0 /\ ~built /\ cls = "OperatorPlus"
    /\ LastPass = "filter_neutral"
    /\ Len(args) > 1
    /\ result # ZeroOperator

\* C6: creating a node again from the args and kwargs of a node that create
\* returned gives an equal node.
C6_CreateIsIdempotent ==
    (cls \in {"OperatorPlus", "OperatorTimes"} /\ prev # None /\ pc = 0) => result = prev

\* C7: match_replace_binary returns the neutral element when the reduced
\* list is empty, the operand itself when one operand is left, and the
\* reduced operands with the kwargs it was given when two or more are left.
C7_MatchReplaceBinaryResult ==
    [][Due("match_replace_binary") =>
          LET fops == _match_replace_binary(cls, brules, args)
          IN /\ Len(fops) = 0 => (pc' = 0 /\ ~built' /\ result' = neutral_element(cls))
             /\ Len(fops) = 1 => (pc' = 0 /\ ~built' /\ result' = fops[1])
             /\ Len(fops) >= 2 =>
                   (pc' = pc + 1 /\ args' = fops /\ kwargs' = kwargs /\ result' = None)]_vars

\* two or more operands cancelled to the neutral element
C7_Witness ==
    /\ pc = 0 /\ ~built
    /\ LastPass = "match_replace_binary"
    /\ Len(args) >= 2
    /\ result = neutral_element(cls)

\* C8: in the operand list the binary reducer returns, the binary rules
\* rewrite no pair of adjacent operands.
C8_ReducerResultFullyReduced ==
    (LastPass = "match_replace_binary" /\ pc = Len(ran) + 1) => FullyReduced(brules, args)

\* C9: x + zero, zero + x, x * one and one * x are x, for every operator x.
C9_NeutralElementAbsorbed ==
    (/\ cls \in {"OperatorPlus", "OperatorTimes"}
     /\ pc = 0 /\ prev = None
     /\ Len(orig.ops) = 2) =>
        \A i \in 1..2 :
            (orig.ops[i] = neutral_element(cls) /\ IsOperator(orig.ops[3 - i]))
               => result = orig.ops[3 - i]

\* the operand lists with the operands of s in every order
Reorderings(s) ==
    LET n == Len(s)
    IN {[i \in 1..n |-> s[q[i]]] :
           q \in {f \in [1..n -> 1..n] : \A i, j \in 1..n : f[i] = f[j] => i = j}}

\* C10: a sum does not depend on the order its operands are given in:
\* create returns the same value for every permutation of the operand list.
C10_SumIsCommutative ==
    (cls = "OperatorPlus" /\ pc = 0 /\ prev = None) =>
        \A p \in Reorderings(orig.ops) :
            create(cls, rules, brules, p, orig.kwargs) = result

\* a sum of two operands was built with the operands exchanged
C10_Witness ==
    /\ cls = "OperatorPlus" /\ pc = 0 /\ prev = None /\ built
    /\ Len(orig.ops) = 2
    /\ orig.ops[1] # orig.ops[2]
    /\ result = Node("OperatorPlus", <<orig.ops[2], orig.ops[1]>>, NoKwargs)


Project(ops, p, q) == SelectSeq(ops, LAMBDA o : o \in {p, q})

\* C12: orderby on a product never changes the relative order of two
\* operands whose spaces are not disjoint, whatever the operand list.
C12_OrderbyKeepsNonCommuting ==
    (cls = "OperatorTimes" /\ LastPass = "orderby" /\ prev = None) =>
        LET given == assoc(cls, orig.ops, orig.kwargs).ops
        IN \A i, j \in 1..Len(given) :
               ~isdisjoint(space(given[i]), space(given[j]))
                   => Project(args, given[i], given[j]) = Project(given, given[i], given[j])

\* the first occurrences of the operands of ops, in their order
RECURSIVE Distinct(_)
Distinct(ops) ==
    IF ops = << >> THEN << >>
    ELSE LET init == Distinct(SubSeq(ops, 1, Len(ops) - 1))
             last == ops[Len(ops)]
         IN IF last \in SetOf(init) THEN init ELSE Append(init, last)

\* C13: idem returns the distinct operands, each once, sorted by the order
\* key; it returns for a list with duplicates what it returns for the list
\* without them; applied to its own output it changes nothing.
C13_IdemRemovesDuplicatesAndSorts ==
    (cls = "Set" /\ LastPass = "idem" /\ prev = None) =>
        /\ \A i, j \in 1..Len(args) : i < j => order_key_lt(cls, args[i], args[j])
        /\ SetOf(args) = SetOf(orig.ops)
        /\ kwargs = orig.kwargs
        /\ idem(cls, orig.ops, orig.kwargs) = {Pair(args, kwargs)}
        /\ idem(cls, Distinct(orig.ops), orig.kwargs) = {Pair(args, kwargs)}
        /\ idem(cls, args, kwargs) = {Pair(args, kwargs)}

\* idem ran on the operands [a, b, a, c], not in order
C13_Witness ==
    /\ cls = "Set" /\ LastPass = "idem" /\ prev = None
    /\ orig.ops = <<IntVal(2), IntVal(1), IntVal(2), IntVal(3)>>
    /\ args = <<IntVal(1), IntVal(2), IntVal(3)>>

\* C15: a wildcard that appears twice in a pattern binds equal values only:
\* with the rule (A, A) -> A, X.create(a, a) returns a, and X.create of any
\* other operand list returns the X node of these operands.
C15_RepeatedWildcardBindsEqualValues ==
    (cls = "X" /\ rules = XRules /\ pc = 0 /\ prev = None) =>
        IF Len(orig.ops) = 2 /\ orig.ops[1] = orig.ops[2]
        THEN result = orig.ops[1]
        ELSE result = Node("X", orig.ops, orig.kwargs)

\* X.create(1, 1) returned 1 without building a node
C15_Witness ==
    /\ cls = "X" /\ pc = 0 /\ prev = None
    /\ orig.ops = <<IntVal(1), IntVal(1)>>
    /\ result = IntVal(1)
    /\ ~built

\* C16: the adjoint is an involution on symbols: x.adjoint() is the Adjoint
\* node of x, and x.adjoint().adjoint() is x.
C16_AdjointIsInvolutionOnSymbols ==
    IsInstance(self, "OperatorSymbol") =>
        /\ calls = <<"adjoint">> => value = Adjoint(self)
        /\ calls = <<"adjoint", "adjoint">> => value = self

\* the adjoint of a symbol on a product space was taken twice
C16_Witness ==
    /\ self = SymY
    /\ calls = <<"adjoint", "adjoint">>
    /\ value = SymY

\* C17: (A * B).adjoint() is B.adjoint() * A.adjoint(), and the adjoint of a
\* product of n factors is created from the adjoints of the factors, last
\* to first.
C17_AdjointOfProductReverses ==
    /\ calls = <<"__mul__", "adjoint">> =>
          value = create("OperatorTimes", << >>, << >>,
                         <<adjoint(other), adjoint(self)>>, NoKwargs)
    /\ (calls = <<"adjoint">> /\ IsInstance(self, "OperatorTimes")) =>
          value = create("OperatorTimes", << >>, << >>,
                         [i \in 1..Len(self.args) |->
                             adjoint(self.args[Len(self.args) + 1 - i])], NoKwargs)

\* the adjoint of the product of two operators that do not commute
C17_Witness ==
    /\ self = SymA /\ other = SymB
    /\ calls = <<"__mul__", "adjoint">>
    /\ value = Node("OperatorTimes", <<Adjoint(SymB), Adjoint(SymA)>>, NoKwargs)

\* C18: (A + B).adjoint() is A.adjoint() + B.adjoint(): the adjoint of a sum
\* is the sum created from the adjoints of its operands, in the operand
\* order create gives.
C18_AdjointDistributesOverSums ==
    calls = <<"__add__", "adjoint">> =>
        value = create("OperatorPlus", << >>, << >>,
                       <<adjoint(self), adjoint(other)>>, NoKwargs)

(***************************************************************************)
(* C20: x.diff(sym, n) returns the zero of the algebra without a call of   *)
(* _diff when sym is not among the free symbols of x; when it is, _diff    *)
(* is applied n times in sequence, each time to the result of the time     *)
(* before, and expand and simplify_scalar are applied to the result only   *)
(* if expand_simplify is set.                                              *)
(***************************************************************************)
\* _diff applied n times in sequence to x
RECURSIVE NthDerivative(_, _, _)
NthDerivative(x, sym, n) ==
    IF n = 0 THEN x ELSE _diff(NthDerivative(x, sym, n - 1), sym)

\* the calls a call of diff makes that differentiates n times
CallsOfDiff(n, expand_simplify) ==
    <<"diff">> \o [k \in 1..n |-> "_diff"]
               \o (IF expand_simplify THEN <<"expand", "simplify_scalar">> ELSE << >>)

\* a call of diff on self has returned
DiffReturned == frame # None /\ frame.method = "diff" /\ frame.pc = "returned"

C20_DiffShortCircuitsOrAppliesDiffNTimes ==
    DiffReturned =>
        IF frame.sym \in free_symbols(self)
        THEN /\ calls = CallsOfDiff(frame.n, frame.expand_simplify)
             /\ value = IF frame.expand_simplify
                        THEN simplify_scalar(expand(NthDerivative(self, frame.sym, frame.n)))
                        ELSE NthDerivative(self, frame.sym, frame.n)
        ELSE /\ calls = <<"diff">>
             /\ value = ZeroOperator

\* t**2 * A, differentiated twice by t with expand_simplify set, gives 2 * A
C20_Witness ==
    /\ DiffReturned
    /\ frame.sym \in free_symbols(self)
    /\ frame.n = 2
    /\ frame.expand_simplify
    /\ self = SymbolicTimesOperatorNode(1, 2, SymA)
    /\ value = ScalarTimesOperatorNode(2, SymA)

(***************************************************************************)
(* C19: x.series_expand(param, about, order) returns a tuple of order + 1  *)
(* coefficients, each an operator; every coefficient that is zero is the   *)
(* ZeroOperator and every coefficient that equals 1 is the                 *)
(* IdentityOperator; and for an x without the free symbol param the tuple  *)
(* is (x, ZeroOperator, ..., ZeroOperator).                                *)
(***************************************************************************)
\* series_expand has been called on self
SeriesExpanded == frame # None /\ frame.method = "series_expand"

\* the coefficients are those of a type-stable expansion of the given order
TypeStableExpansion(coefficients, order) ==
    /\ Len(coefficients) = order + 1
    /\ \A i \in 1..Len(coefficients) :
          /\ IsOperator(coefficients[i])
          /\ (EqualsNumber(coefficients[i], 0) \/ is_zero(coefficients[i]))
                => coefficients[i] = ZeroOperator
          /\ EqualsNumber(coefficients[i], 1) => coefficients[i] = IdentityOperator

C19_SeriesExpandIsTypeStable ==
    SeriesExpanded =>
        /\ frame.pc = "returned"
        /\ TypeStableExpansion(value.items, frame.n)
        /\ frame.sym \notin free_symbols(self)
              => value.items = <<self>> \o [n \in 1..frame.n |-> ZeroOperator]

(***************************************************************************)
(* C14: a scoped rule override changes the rule tables of its class only   *)
(* inside the with-block.  At every moment the tables are the tables from  *)
(* before any block, overridden by the blocks that are open, outermost     *)
(* first: when a block is left, normally or by an exception, the tables    *)
(* are again those of the blocks around it, and with no block open they    *)
(* are the tables from before.                                             *)
(***************************************************************************)
\* the tables overridden by the first n of the open blocks in turn
RECURSIVE InForce(_, _, _)
InForce(tables, open, n) ==
    IF n = 0 THEN tables
    ELSE Override(open[n].kind, open[n].extra, InForce(tables, open, n - 1))

C14_ScopedOverrideIsRestored ==
    /\ Tables(rules, brules) = InForce(orig, scopes, Len(scopes))
    /\ \A i \in 1..Len(scopes) : scopes[i].saved = InForce(orig, scopes, i - 1)

\* inside extra_binary_rules(OperatorPlus, create_operator_pm_cc()), after a
\* nested no_rules block was left by an exception, create combines A and
\* its adjoint again
C14_Witness ==
    /\ cls = "OperatorPlus"
    /\ orig = Tables(<< >>, << >>)
    /\ ran = <<"extra_binary_rules", "no_rules", "exception">>
    /\ Len(scopes) = 1
    /\ brules = create_operator_pm_cc
    /\ result = OperatorPlusMinusCC(SymA, 1)

(***************************************************************************)
(* C21: adding or subtracting indexed sums fails at the call: for an       *)
(* indexed sum s and any other operand, each of s + other, other + s,      *)
(* s - other and other - s raises an error and returns no node.            *)
(***************************************************************************)
C21_IndexedSumAdditionRaises ==
    (/\ calls \in {<<"+">>, <<"-">>}
     /\ IsIndexedSum(self) \/ IsIndexedSum(other))
        => Raised(value)

(***************************************************************************)
(* C22: multiplying an indexed sum s by a non-indexed expression or a      *)
(* scalar c succeeds on either side: s * c and c * s return a node, and    *)
(* for a scalar c the two results are equal.                               *)
(***************************************************************************)
C22_IndexedSumTimesNonIndexed ==
    calls = <<"*">> =>
        /\ (IsIndexedSum(self) /\ ~IsIndexedSum(other)) =>
              /\ ~Raised(value)
              /\ is_scalar(other) => value = Times(other, self)
        /\ (IsIndexedSum(other) /\ ~IsIndexedSum(self)) =>
              /\ ~Raised(value)
              /\ is_scalar(self) => value = Times(other, self)

(***************************************************************************)
(* C23: Sum(idx, *range_args) chooses the range by the types of            *)
(* range_args: no argument or one LocalSpace gives a range over a basis,   *)
(* one list or tuple a range over values, one, two or three integers an    *)
(* integer range; each of these shapes yields an indexed sum when applied  *)
(* to a term, and every other shape raises TypeError.                      *)
(***************************************************************************)
SumShape(a) ==
    CASE TypesOf(a) \in {<< >>, <<"LocalSpace">>} -> "IndexOverFockSpace"
      [] TypesOf(a) \in {<<"list">>, <<"tuple">>} -> "IndexOverList"
      [] TypesOf(a) \in {<<"int">>, <<"int", "int">>, <<"int", "int", "int">>} ->
            "IndexOverRange"
      [] OTHER -> "TypeError"

C23_SumDispatchesOnArgumentTypes ==
    (frame # None /\ frame.method = "Sum") =>
        /\ frame.pc = "raised" => (SumShape(frame.args) = "TypeError" /\ value = TypeError)
        /\ frame.pc = "returned" => SumShape(frame.args) # "TypeError"
        /\ frame.pc = "applied" =>
              /\ IsIndexedSum(value)
              /\ value.term = self
              /\ Len(value.ranges) = 1
              /\ value.ranges[1].t = SumShape(frame.args)
              /\ value.ranges[1].index_symbol = frame.idx

(***************************************************************************)
(* C24: check_kets_same_space hands its operands on unchanged exactly when *)
(* all of them are Kets and the operands other than ZeroKet have one       *)
(* common space; it raises TypeError when some operand is no Ket and       *)
(* UnequalSpaces when two operands other than ZeroKet differ in space, and *)
(* a.__add__(b) of two such kets raises UnequalSpaces.                     *)
(***************************************************************************)
AllKets(ops) == \A i \in 1..Len(ops) : IsKet(ops[i])
\* the spaces of the operands other than ZeroKet
NonZeroSpaces(ops) == {space(ops[i]) : i \in {j \in 1..Len(ops) : ops[j] # ZeroKet}}

C24_KetsOfASumShareOneSpace ==
    /\ calls = <<"check_kets_same_space">> =>
          /\ value = Pair(args, kwargs)
                <=> (AllKets(args) /\ Cardinality(NonZeroSpaces(args)) = 1)
          /\ ~AllKets(args) => value = Final(TypeError)
          /\ (AllKets(args) /\ Cardinality(NonZeroSpaces(args)) > 1)
                => value = Final(UnequalSpaces)
    /\ (/\ calls = <<"__add__">>
        /\ pc = 0
        /\ self # ZeroKet
        /\ other # ZeroKet
        /\ space(self) # space(other))
          => result = UnequalSpaces

C24_Witness ==
    /\ calls = <<"check_kets_same_space">>
    /\ args = <<KetA, ZeroKet, KetB>>
    /\ value = Pair(args, kwargs)

(***************************************************************************)
(* C25: a Bra is accepted only at the root: when every operand given to    *)
(* create is a Bra, accept_bras ends create with the Bra of the operation  *)
(* created from the kets of the operands; when some operand is no Bra the  *)
(* operands are handed on unchanged; and the constructor called with a Bra *)
(* among the operands raises TypeError.                                    *)
(***************************************************************************)
AllBras(ops) == ops # << >> /\ \A i \in 1..Len(ops) : IsBra(ops[i])
KetsOf(ops) == [i \in 1..Len(ops) |-> ops[i].operand]
\* cls.create(*kets): accept_bras returns kets as they are, the passes
\* after it follow
CreatedFrom(kets) == create_from(cls, << >>, << >>, 2, kets, NoKwargs)

C25_BraOnlyAtTheRoot ==
    /\ ran = <<"accept_bras">> =>
          /\ AllBras(orig.ops) =>
                /\ pc = 0
                /\ ~Raised(CreatedFrom(KetsOf(orig.ops)))
                      => result = Bra(CreatedFrom(KetsOf(orig.ops)))
                /\ Raised(CreatedFrom(KetsOf(orig.ops)))
                      => result = CreatedFrom(KetsOf(orig.ops))
          /\ (\E i \in 1..Len(orig.ops) : ~IsBra(orig.ops[i])) =>
                /\ pc = 2
                /\ args = orig.ops
                /\ kwargs = orig.kwargs
    /\ (ran = <<"__init__">> /\ \E i \in 1..Len(args) : IsBra(args[i]))
          => result = TypeError

C25_Witness ==
    /\ ran = <<"accept_bras">>
    /\ orig.ops = <<Bra(KetA), Bra(KetC)>>
    /\ cls = "TensorKet"
    /\ pc = 0
    /\ result = Bra(State_init("TensorKet", <<KetA, KetC>>, NoKwargs))

(***************************************************************************)
(* C26: the space of a sum or product node is the product of the spaces of *)
(* its operands ((a * b).space is h1 * h2 for a on h1 and b on h2), a      *)
(* scalar multiple has the space of its term, and the space of a node is   *)
(* the same in every later state.                                          *)
(***************************************************************************)
\* the local factors of the spaces of the symbols in x
RECURSIVE LocalFactors(_)
LocalFactors(x) ==
    CASE x.t = "KetSymbol" -> x.hs
      [] x.t = "ZeroKet" -> FullSpace
      [] x.t = "TrivialKet" -> TrivialSpace
      [] x.t = "ScalarTimesKet" -> LocalFactors(x.term)
      [] x.t \in KetClasses -> UNION {LocalFactors(x.args[i]) : i \in 1..Len(x.args)}

C26_SpaceIsProductOfOperandSpaces ==
    (built /\ ~Raised(result)) =>
        /\ result.args = args
        /\ space(result) = UNION {LocalFactors(args[i]) : i \in 1..Len(args)}
        /\ (calls = <<"__mul__">> /\ self = KetA /\ other = KetC)
              => space(result) = ProductSpace(<<1, 2>>)
        /\ value # None =>
              /\ value.term = result
              /\ space(value) = UNION {LocalFactors(args[i]) : i \in 1..Len(args)}

C26_Witness ==
    /\ built
    /\ calls = <<"__mul__">>
    /\ self = KetA
    /\ other = KetC
    /\ result.t = "TensorKet"
    /\ value = ScalarTimesKet(5, result)
    /\ space(value) = ProductSpace(<<1, 2>>)

(***************************************************************************)
(* C27: the logging flags do not change what match_replace computes: for   *)
(* every rule table and operand list the pass returns, under every         *)
(* combination of LOG and LOG_NO_MATCH, what it returns without logging,   *)
(* and raises no error of its own.                                         *)
(***************************************************************************)
C27_LoggingDoesNotChangeMatchReplace ==
    calls = <<"match_replace">> => value = match_replace(rules, args, kwargs)

\* every replacement of the table is the neutral element or a single value
\* that is not an instance of the operation
ShorteningTable(table) ==
    \A i \in 1..Len(table) : table[i] \in {"cancel", "filter_dupes"}

\* the table replaces every pair by the instance of the operation on the
\* swapped pair, and the list has three operands
SplicingInput == brules = <<"swap">> /\ args = <<IntVal(1), IntVal(2), IntVal(1)>>

\* C28: the binary reducer returns for every operand list when each
\* replacement of its table is the neutral element or a single value that is
\* not an instance of the operation, and with a table whose replacement is an
\* instance of the operation on two operands its merge recursion never
\* returns
C28_ReducerTerminatesUnlessSpliced ==
    /\ ShorteningTable(brules) => <>(pc = 0)
    /\ SplicingInput => [](pc # 0)

\* the merge of (1, ) and (1, 2) under the swapping table is reached again,
\* below six more calls that wait for it
C28_Witness ==
    /\ SplicingInput
    /\ frame = Combine(<<IntVal(1)>>, <<IntVal(1), IntVal(2)>>)
    /\ Len(scopes) = 7

\* the table rewrites a number and its negative to the neutral element and
\* has no rule that splices
CancellingTable(table) ==
    ShorteningTable(table) /\ \E i \in 1..Len(table) : table[i] = "cancel"

\* C29: rewrites at the merge boundary cascade: the operands that become
\* adjacent when the boundary pair is replaced are examined again, so the
\* reducer returns a list in which no adjacent pair is rewritten, and a list
\* of k nested cancelling pairs x1..xk yk..y1 reduces to the neutral element
\* for every k from 1 to MaxPairs
C29_BoundaryRewritesCascade ==
    (pc = 0 /\ ShorteningTable(brules)) =>
        /\ result = match_replace_binary(cls, brules, args, kwargs)
        /\ result.pair => FullyReduced(brules, result.ops)
        /\ \A k \in 1..MaxPairs :
               (CancellingTable(brules) /\ args = NestedPairs(k)) =>
                   result = Final(neutral_element(cls))

\* three nested pairs were cancelled one after the other
C29_Witness ==
    /\ pc = 0
    /\ brules = <<"cancel">>
    /\ args = NestedPairs(3)
    /\ result = Final(IntVal(0))

\* Commutator.create returned to its caller after its operands A, B reached
\* commutator_order
ThroughCommutatorOrder ==
    /\ cls = "Commutator"
    /\ pc = 0
    /\ scopes = << >>
    /\ \E i \in 1..Len(ran) : ran[i] = "commutator_order"

====
